---------------------------- MODULE Spec2Model ----------------------------
(***************************************************************************)
(* A model of ptb_changelog_helper: the changelog data model               *)
(* (changelog.py), the GitHub record types (githubtypes.py) and the        *)
(* parts of the GraphQL client (graphqlclient.py) that build the thread    *)
(* lookup table.                                                           *)
(*                                                                         *)
(* Texts.  A Python str is modelled as a sequence of pieces whose          *)
(* concatenation is the string.  Commit messages and Change.text are       *)
(* sequences of one-character pieces, so the regular expressions of        *)
(* const.py are modelled character by character.  Renderers add their      *)
(* fixed markup (" by ", " closes ", ...) and opaque strings (a login, a   *)
(* URL) as one piece each; numbers are rendered digit by digit.            *)
(*                                                                         *)
(* The parser reads ASCII only: the emoji that begins a marker name of the *)
(* rule table is written as its short code (":bug: bug" for the bug emoji  *)
(* and " bug", ":gear: bot-api" for the gear emoji and " bot-api", ...).   *)
(* The renaming is one-to-one, and the names are only ever compared for    *)
(* equality: a label named "bug" is not the marker ":bug: bug".  For       *)
(* the same reason the backquote (of the reStructuredText markup and of    *)
(* monospaced Markdown) is written as an apostrophe, and the bullet of the *)
(* HTML rendering as the piece BULLET.                                     *)
(***************************************************************************)
EXTENDS Integers, Sequences, FiniteSets, TLC

VARIABLES
    pc,         \* the position of the operation under way
    args,       \* the inputs of the call under way
    result,     \* what the call returned (Null before it returns)
    commits,    \* build_for_version: the commits the client returned
    changelog,  \* the Changelog instance: [changes, change_blocks]
    threads,    \* build_for_version: the table get_threads returned
    idx,        \* update_changes_from_pull_requests: the loop position
    calls,      \* history: update_from_pull_requests calls per Change
    requests,   \* history: the requests sent to the forge, in order
    responses,  \* history: the responses of the forge, in order; in
                \* get_commits_since the last one is commit_history_connection
    warnings,   \* history: the messages passed to warnings.warn, in order
    files,      \* main: the files of the repository that is patched
    steps,      \* history: the steps of main that have finished, in order
    heap        \* the containers and the Change objects of a caller of the
                \* classes, by address

buildVars == <<commits, changelog, threads, idx, calls, requests, responses,
               warnings, files, steps, heap>>

vars == <<pc, args, result, commits, changelog, threads, idx, calls, requests,
          responses, warnings, files, steps, heap>>

Null == "None"

(***************************************************************************)
(* Bounds of the model.                                                    *)
(***************************************************************************)
MaxTextLen == 5

MaxLabels == 1

MaxClosing == 2

MaxExclude == 2

MaxNames == 2

MaxCommits == 2

MaxVersionPart == 3

MaxHeadlineLen == 2

MaxBodyLen == 3

MaxPages == 3

MaxPageLen == 1

(***************************************************************************)
(* Sequence helpers.                                                       *)
(***************************************************************************)
SeqsUpTo(S, n) == UNION {[1..k -> S] : k \in 0..n}

Range(s) == {s[i] : i \in DOMAIN s}

RECURSIVE Join(_, _)
\* sep.join(parts): the parts concatenated with sep between neighbours
Join(parts, sep) ==
    IF parts = <<>> THEN <<>>
    ELSE IF Len(parts) = 1 THEN parts[1]
    ELSE parts[1] \o sep \o Join(Tail(parts), sep)

\* whether frag occurs in text as a contiguous run of pieces
Contains(text, frag) ==
    \E i \in 1..(Len(text) - Len(frag) + 1) :
        SubSeq(text, i, i + Len(frag) - 1) = frag

(***************************************************************************)
(* Characters, digits and decimal numbers.                                 *)
(***************************************************************************)
DigitChars == <<"0", "1", "2", "3", "4", "5", "6", "7", "8", "9">>

IsDigit(c) == \E d \in 1..10 : DigitChars[d] = c

DigitVal(c) == (CHOOSE d \in 1..10 : DigitChars[d] = c) - 1

\* the position after the maximal run of digits that starts at i
RECURSIVE RunEnd(_, _)
RunEnd(text, i) ==
    IF i <= Len(text) /\ IsDigit(text[i]) THEN RunEnd(text, i + 1) ELSE i

\* int(text[i..j-1]) for a run of digits
RECURSIVE IntOf(_, _, _)
IntOf(text, i, j) ==
    IF j <= i THEN 0
    ELSE 10 * IntOf(text, i, j - 1) + DigitVal(text[j - 1])

\* str(n) for n >= 0, one piece per digit
RECURSIVE StrOfInt(_)
StrOfInt(n) ==
    IF n < 10 THEN <<DigitChars[n + 1]>>
    ELSE StrOfInt(n \div 10) \o <<DigitChars[(n % 10) + 1]>>

(***************************************************************************)
(* const.py: GITHUB_THREAD_PATTERN = (\#(\d+)) and                         *)
(* GITHUB_THREADS_PATTERN = " \((#\d+(, )?)+\)".                           *)
(***************************************************************************)
\* GITHUB_THREAD_PATTERN matches at i: a '#' followed by at least one digit
ThreadMatchAt(text, i) ==
    /\ i + 1 <= Len(text)
    /\ text[i] = "#"
    /\ IsDigit(text[i + 1])

\* {int(m.group(2)) for m in GITHUB_THREAD_PATTERN.finditer(text)}, scanning
\* from position i; finditer resumes after the end of each match
RECURSIVE FindThreadNumbers(_, _)
FindThreadNumbers(text, i) ==
    IF i > Len(text) THEN {}
    ELSE IF ThreadMatchAt(text, i)
         THEN {IntOf(text, i + 1, RunEnd(text, i + 1))}
                  \cup FindThreadNumbers(text, RunEnd(text, i + 1))
         ELSE FindThreadNumbers(text, i + 1)

\* the repeated group (#\d+(, )?)+ starting at j; the position after the
\* closing ')' when the rest of GITHUB_THREADS_PATTERN matches, else 0
RECURSIVE ThreadsGroupEnd(_, _)
ThreadsGroupEnd(text, j) ==
    IF ~ThreadMatchAt(text, j) THEN 0
    ELSE LET e == RunEnd(text, j + 1)
             f == IF e + 1 <= Len(text) /\ text[e] = "," /\ text[e + 1] = " "
                  THEN e + 2 ELSE e
         IN  IF f <= Len(text) /\ text[f] = ")" THEN f + 1
             ELSE ThreadsGroupEnd(text, f)

\* GITHUB_THREADS_PATTERN matches at i: the position after the match, else 0
ThreadsMatchEnd(text, i) ==
    IF i + 1 <= Len(text) /\ text[i] = " " /\ text[i + 1] = "("
    THEN ThreadsGroupEnd(text, i + 2)
    ELSE 0

\* GITHUB_THREADS_PATTERN.sub("", text), scanning from position i
RECURSIVE StripThreads(_, _)
StripThreads(text, i) ==
    IF i > Len(text) THEN <<>>
    ELSE IF ThreadsMatchEnd(text, i) # 0
         THEN StripThreads(text, ThreadsMatchEnd(text, i))
         ELSE <<text[i]>> \o StripThreads(text, i + 1)

(***************************************************************************)
(* githubtypes.py: Label, User, Author, Issue, PullRequest.                *)
(*                                                                         *)
(* A record type of pydantic compares (and hashes) by all of its fields,   *)
(* which is equality of TLA+ records; User overrides both.  A connection   *)
(* (LabelConnection, ClosingIssuesReferences) is optional, and so is its   *)
(* tuple of nodes: an optional value is None or Some(value).  An optional  *)
(* string (Label.description) is the string or Null.                       *)
(***************************************************************************)
None == <<>>

Some(value) == <<value>>

IsSome(optional) == optional # None

Get(optional) == optional[1]

Label(name, description) == [name |-> name, description |-> description]

\* an issue type, of which the resolver reads the name
IssueType(name) == [name |-> name]

User(login, url) == [login |-> login, url |-> url]

\* User.__hash__: hash((login, url)); distinct pairs stand for distinct hashes
UserHash(u) == <<u.login, u.url>>

\* User.__eq__: the logins agree
UserEq(a, b) == a.login = b.login

\* x in s for a Python set s of users: an element with the hash of x that
\* equals x
UserSetContains(s, x) == \E e \in s : UserHash(e) = UserHash(x) /\ UserEq(e, x)

\* s.add(x)
UserSetAdd(s, x) == IF UserSetContains(s, x) THEN s ELSE s \cup {x}

RECURSIVE UserSetUpdate(_, _)
\* s.update(users), or set(users) from the empty set, in iteration order
UserSetUpdate(s, users) ==
    IF users = <<>> THEN s
    ELSE UserSetUpdate(UserSetAdd(s, Head(users)), Tail(users))

DEPENDABOT_USER == User("dependabot", "https://github.com/apps/dependabot")

PRE_COMMIT_CI_USER == User("pre-commit-ci", "https://github.com/apps/pre-commit-ci")

\* a connection that is there, with its nodes (None or Some(tuple))
Connection(nodes, hasNextPage) ==
    Some([nodes |-> nodes, hasNextPage |-> hasNextPage])

\* "connection and connection.nodes": the connection is there and its tuple
\* of nodes is not empty
HasNodes(connection) ==
    /\ IsSome(connection)
    /\ IsSome(Get(connection).nodes)
    /\ Get(Get(connection).nodes) # <<>>

\* connection.nodes, once HasNodes(connection) is known
Nodes(connection) == Get(Get(connection).nodes)

\* Issue; issueType (None or Some(IssueType)) is the field that
\* effective_issue_types reads, which changelog.py expects of githubtypes.py
Issue(number, url, labels, author, issueType) ==
    [ typename |-> "Issue", number |-> number, url |-> url, labels |-> labels,
      author |-> author, issueType |-> issueType ]

PullRequest(number, url, author, closingIssuesReferences, labels) ==
    [ typename |-> "PullRequest", number |-> number, url |-> url,
      author |-> author, closingIssuesReferences |-> closingIssuesReferences,
      labels |-> labels ]

\* Organization
Organization(membersWithRole) ==
    [typename |-> "Organization", membersWithRole |-> membersWithRole]

\* len(connection.nodes or [])
Retrieved(connection) ==
    IF IsSome(Get(connection).nodes) THEN Len(Get(Get(connection).nodes)) ELSE 0

\* the message of the warning of _issue_pagination_warning
PaginationMessage(source_description, node_description, connection) ==
    source_description
        \o <<" has more ", node_description, " available. Retrieved only the first ">>
        \o StrOfInt(Retrieved(connection)) \o <<".">>

\* a plausible slip: the warning is given for every connection that is there
WarnsForEveryConnection(source_description, node_description, connection) ==
    IF IsSome(connection)
    THEN <<PaginationMessage(source_description, node_description, connection)>>
    ELSE <<>>

\* _issue_pagination_warning: the messages it passes to warn, none or one
IssuePaginationWarning(source_description, node_description, connection) ==
    IF IsSome(connection) /\ Get(connection).hasNextPage
    THEN <<PaginationMessage(source_description, node_description, connection)>>
    ELSE <<>>

\* Issue.__init__: the warnings of one Issue
IssueWarnings(issue) ==
    IssuePaginationWarning(<<"Issue ">> \o StrOfInt(issue.number), "labels", issue.labels)

\* the warnings of the issues of a tuple, which are constructed in its order
RECURSIVE IssuesWarnings(_)
IssuesWarnings(issues) ==
    IF issues = <<>> THEN <<>>
    ELSE IssueWarnings(Head(issues)) \o IssuesWarnings(Tail(issues))

\* PullRequest.__init__: super().__init__ constructs the closing issues from
\* the data, then the two warnings of the pull request itself
PullRequestWarnings(pr) ==
    IssuesWarnings(IF IsSome(pr.closingIssuesReferences)
                      /\ IsSome(Get(pr.closingIssuesReferences).nodes)
                   THEN Get(Get(pr.closingIssuesReferences).nodes) ELSE <<>>)
        \o IssuePaginationWarning(<<"PullRequest ">> \o StrOfInt(pr.number)
                                       \o <<" ">> \o StrOfInt(pr.number),
                                   "labels", pr.labels)
        \o IssuePaginationWarning(<<"PullRequest ">> \o StrOfInt(pr.number),
                                   "closing issues", pr.closingIssuesReferences)

\* Organization.__init__
OrganizationWarnings(organization) ==
    IssuePaginationWarning(<<"PTB">>, "developers", organization.membersWithRole)

\* cls(**data) for the three classes that warn
ConstructionWarnings(object) ==
    CASE object.typename = "Issue" -> IssueWarnings(object)
      [] object.typename = "PullRequest" -> PullRequestWarnings(object)
      [] object.typename = "Organization" -> OrganizationWarnings(object)

\* Author.as_md / as_html / as_rst
AuthorAsMd(author) == <<author.login>>

AuthorAsHtml(author) == <<"<a href=\"", author.url, "\">", author.login, "</a>">>

AuthorAsRst(author) == <<"'", author.login, " <", author.url, ">'_">>

\* Issue.as_md / as_html / as_rst
IssueAsMd(issue) == StrOfInt(issue.number)

IssueAsHtml(issue) ==
    <<"<a href=\"", issue.url, "\">", "#">> \o StrOfInt(issue.number) \o <<"</a>">>

IssueAsRst(issue) == <<":issue:'">> \o StrOfInt(issue.number) \o <<"'">>

\* a plausible slip: only the caller's users are excluded
ExcludeSetCallerOnly(exclude_users) == UserSetUpdate({}, exclude_users)

\* exclude_users = set(exclude_users);
\* exclude_users.update({DEPENDABOT_USER, PRE_COMMIT_CI_USER})
ExcludeSet(exclude_users) ==
    UserSetUpdate(UserSetUpdate({}, exclude_users),
                  <<DEPENDABOT_USER, PRE_COMMIT_CI_USER>>)

\* the " closes ..." part of the three renderers, rendered[i] being the
\* rendering of the i-th closing issue
ClosesPart(rendered) ==
    IF rendered = <<>> THEN <<>>
    ELSE IF Len(rendered) = 1 THEN <<" closes ">> \o rendered[1]
    ELSE <<" closes ">>
             \o Join(SubSeq(rendered, 1, Len(rendered) - 1), <<", ">>)
             \o <<" ">> \o <<"and ">> \o rendered[Len(rendered)]

ClosingNodes(pr) ==
    IF HasNodes(pr.closingIssuesReferences)
    THEN Nodes(pr.closingIssuesReferences) ELSE <<>>

\* PullRequest.as_md
PullRequestAsMd(pr, exclude_users) ==
    <<"#">> \o StrOfInt(pr.number)
        \o (IF ~UserSetContains(ExcludeSet(exclude_users), pr.author)
            THEN <<" by ">> \o AuthorAsMd(pr.author) ELSE <<>>)
        \o ClosesPart([i \in DOMAIN ClosingNodes(pr) |-> IssueAsMd(ClosingNodes(pr)[i])])

\* PullRequest.as_html
PullRequestAsHtml(pr, exclude_users) ==
    <<"<a href=\"", pr.url, "\">", "#">> \o StrOfInt(pr.number) \o <<"</a>">>
        \o (IF ~UserSetContains(ExcludeSet(exclude_users), pr.author)
            THEN <<" by ">> \o AuthorAsHtml(pr.author) ELSE <<>>)
        \o ClosesPart([i \in DOMAIN ClosingNodes(pr) |-> IssueAsHtml(ClosingNodes(pr)[i])])

\* PullRequest.as_rst
PullRequestAsRst(pr, exclude_users) ==
    <<":pr:'">> \o StrOfInt(pr.number) \o <<"'">>
        \o (IF ~UserSetContains(ExcludeSet(exclude_users), pr.author)
            THEN <<" by ">> \o AuthorAsRst(pr.author) ELSE <<>>)
        \o ClosesPart([i \in DOMAIN ClosingNodes(pr) |-> IssueAsRst(ClosingNodes(pr)[i])])

\* a plausible slip: the labels of the closed issues are left out
EffectiveLabelsOwnOnly(pr) ==
    IF HasNodes(pr.labels) THEN Range(Nodes(pr.labels)) ELSE {}

\* PullRequest.effective_labels
EffectiveLabels(pr) ==
    (IF HasNodes(pr.labels) THEN Range(Nodes(pr.labels)) ELSE {})
        \cup UNION { IF HasNodes(issue.labels) THEN Range(Nodes(issue.labels)) ELSE {} :
                         issue \in Range(ClosingNodes(pr)) }

\* PullRequest.effective_issue_types: the issue types of the closed issues
EffectiveIssueTypes(pr) ==
    { Get(issue.issueType) :
          issue \in {i \in Range(ClosingNodes(pr)) : IsSome(i.issueType)} }

(***************************************************************************)
(* version.py: Version.                                                    *)
(***************************************************************************)
Version(major, minor, micro, releaselevel, serial) ==
    [ major |-> major, minor |-> minor, micro |-> micro,
      releaselevel |-> releaselevel, serial |-> serial ]

ReleaseLevels == {"alpha", "beta", "candidate", "final"}

\* Version._rl_shorthand, for the three levels that are keys of its dict
RlShorthand(version) ==
    CASE version.releaselevel = "alpha" -> <<"a">>
      [] version.releaselevel = "beta" -> <<"b">>
      [] version.releaselevel = "candidate" -> <<"r", "c">>

\* a plausible slip: the micro part is always written
VersionStrWithMicro(version) ==
    StrOfInt(version.major) \o <<".">> \o StrOfInt(version.minor)
        \o <<".">> \o StrOfInt(version.micro)
        \o (IF version.releaselevel # "final"
            THEN RlShorthand(version) \o StrOfInt(version.serial) ELSE <<>>)

\* Version.__str__
VersionStr(version) ==
    LET base == StrOfInt(version.major) \o <<".">> \o StrOfInt(version.minor)
        with_micro == IF version.micro # 0
                      THEN base \o <<".">> \o StrOfInt(version.micro)
                      ELSE base
    IN  IF version.releaselevel # "final"
        THEN with_micro \o RlShorthand(version) \o StrOfInt(version.serial)
        ELSE with_micro

(***************************************************************************)
(* changelog.py: ChangeCategory and Change.                                *)
(***************************************************************************)
\* the members of ChangeCategory, in declaration order
ChangeCategory ==
    << "Major Changes", "Minor Changes", "New Features", "Bug Fixes",
       "Documentation Improvements", "Internal Changes", "Dependency Updates" >>

MAJOR == ChangeCategory[1]
MINOR == ChangeCategory[2]
NEW_FEATURES == ChangeCategory[3]
BUG_FIXES == ChangeCategory[4]
DOCUMENTATION == ChangeCategory[5]
INTERNAL == ChangeCategory[6]
DEPENDENCIES == ChangeCategory[7]

\* the rule table "mapping" of resolve_from_labels_and_types, in its order
RuleTable ==
    << <<":bug: bug", BUG_FIXES>>,
       <<":bulb: feature", NEW_FEATURES>>,
       <<":gear: bot-api", MAJOR>>,
       <<":gear: documentation", DOCUMENTATION>>,
       <<":gear: tests", INTERNAL>>,
       <<":gear: ci-cd", INTERNAL>>,
       <<":gear: security :lock:", BUG_FIXES>>,
       <<":gear: examples", DOCUMENTATION>>,
       <<":gear: type-hinting", MINOR>>,
       <<":hammer_and_wrench: refactor", INTERNAL>>,
       <<":hammer_and_wrench: breaking", MAJOR>>,
       <<":gear: dependencies", DEPENDENCIES>>,
       <<":link: github-actions", INTERNAL>>,
       <<":hammer_and_wrench: code-quality", INTERNAL>> >>

\* label_names: the names of the labels, updated with the names of the types
LabelNames(labels, issue_type) ==
    {labels[i].name : i \in DOMAIN labels}
        \cup {issue_type[i].name : i \in DOMAIN issue_type}

\* a plausible slip: after the loop the loop variable "category" is returned,
\* which is the category of the last rule
RECURSIVE ResolveFromReturnsLoopVariable(_, _)
ResolveFromReturnsLoopVariable(label_names, k) ==
    IF k > Len(RuleTable) THEN RuleTable[Len(RuleTable)][2]
    ELSE IF \E label \in label_names : RuleTable[k][1] = label THEN RuleTable[k][2]
    ELSE ResolveFromReturnsLoopVariable(label_names, k + 1)

\* the loop over mapping.items() from rule k on: the category of the first
\* rule whose source_label is one of the names, MAJOR when the loop runs out
RECURSIVE ResolveFrom(_, _)
ResolveFrom(label_names, k) ==
    IF k > Len(RuleTable) THEN MAJOR
    ELSE IF \E label \in label_names : RuleTable[k][1] = label THEN RuleTable[k][2]
    ELSE ResolveFrom(label_names, k + 1)

\* the category of the first of the names that is a marker, MAJOR if none is
RECURSIVE FirstMarkedName(_)
FirstMarkedName(names) ==
    IF names = <<>> THEN MAJOR
    ELSE IF \E k \in DOMAIN RuleTable : RuleTable[k][1] = names[1]
         THEN RuleTable[CHOOSE k \in DOMAIN RuleTable : RuleTable[k][1] = names[1]][2]
         ELSE FirstMarkedName(Tail(names))

\* a plausible slip: the loops are nested the other way round, so the first
\* supplied name that is a marker decides
ResolveNameMajor(labels, issue_type) ==
    FirstMarkedName([i \in DOMAIN labels |-> labels[i].name]
                        \o [i \in DOMAIN issue_type |-> issue_type[i].name])

\* ChangeCategory.resolve_from_labels_and_types(labels, issue_type), the two
\* collections given in their iteration order
ResolveFromLabelsAndTypes(labels, issue_type) ==
    ResolveFrom(LabelNames(labels, issue_type), 1)

\* the elements of a Python set in an iteration order
IterationOrder(S) == CHOOSE s \in [1..Cardinality(S) -> S] : Range(s) = S

\* a plausible slip: the thread numbers are read after the text was stripped
ChangeInitStripFirst(text) ==
    [ text |-> StripThreads(text, 1),
      pull_requests |-> {},
      thread_numbers |-> FindThreadNumbers(StripThreads(text, 1), 1),
      category |-> MAJOR,
      effective_labels |-> {},
      effective_issue_types |-> {} ]

\* Change.__init__(text=...)
ChangeInit(text) ==
    [ text |-> StripThreads(text, 1),
      pull_requests |-> {},
      thread_numbers |-> FindThreadNumbers(text, 1),
      category |-> MAJOR,
      effective_labels |-> {},
      effective_issue_types |-> {} ]

\* a plausible slip: the lookup is github_threads.get(thread_number), and a
\* missing thread is dropped
RaisesKeyErrorNever(change, github_threads) == FALSE

\* whether Change.update_from_pull_requests raises KeyError: the lookup
\* github_threads[thread_number] of a number that is no key of the table
RaisesKeyError(change, github_threads) ==
    \E thread_number \in change.thread_numbers :
        thread_number \notin DOMAIN github_threads

\* a plausible slip: the pull requests found before the missing number are
\* stored
PartlyUpdated(change, github_threads) ==
    [ change EXCEPT
          !.pull_requests =
              { github_threads[n] :
                    n \in { m \in change.thread_numbers \cap DOMAIN github_threads :
                                github_threads[m].typename = "PullRequest" } } ]

\* the Change after update_from_pull_requests has raised KeyError: the lookup
\* fails inside the set comprehension, before self.pull_requests is assigned
\* and before any of the statements that follow
AfterKeyError(change, github_threads) == change

\* a plausible slip: the labels of a referenced plain issue are collected
\* like those of a pull request
UpdateFromPullRequestsAndIssues(change, github_threads) ==
    LET found == { github_threads[n] :
                       n \in change.thread_numbers \cap DOMAIN github_threads }
        pull_requests == {thread \in found : thread.typename = "PullRequest"}
        effective_labels ==
            change.effective_labels
                \cup UNION {EffectiveLabels(pr) : pr \in pull_requests}
                \cup UNION { IF HasNodes(issue.labels) THEN Range(Nodes(issue.labels)) ELSE {} :
                                 issue \in found \ pull_requests }
        effective_issue_types ==
            change.effective_issue_types
                \cup UNION {EffectiveIssueTypes(pr) : pr \in pull_requests}
    IN  [ change EXCEPT
              !.pull_requests = pull_requests,
              !.effective_labels = effective_labels,
              !.effective_issue_types = effective_issue_types,
              !.category = ResolveFromLabelsAndTypes(
                               IterationOrder(effective_labels),
                               IterationOrder(effective_issue_types)) ]

\* Change.update_from_pull_requests once every lookup succeeded (a number
\* that is no key contributes nothing: the method has raised before)
UpdateFromPullRequests(change, github_threads) ==
    LET pull_requests ==
            { github_threads[n] :
                  n \in { m \in change.thread_numbers \cap DOMAIN github_threads :
                              github_threads[m].typename = "PullRequest" } }
        effective_labels ==
            change.effective_labels
                \cup UNION {EffectiveLabels(pr) : pr \in pull_requests}
        effective_issue_types ==
            change.effective_issue_types
                \cup UNION {EffectiveIssueTypes(pr) : pr \in pull_requests}
    IN  [ change EXCEPT
              !.pull_requests = pull_requests,
              !.effective_labels = effective_labels,
              !.effective_issue_types = effective_issue_types,
              !.category = ResolveFromLabelsAndTypes(
                               IterationOrder(effective_labels),
                               IterationOrder(effective_issue_types)) ]

\* a plausible slip: the text alone, without the pull requests
ChangeAsMdTextOnly(change, exclude_users) == change.text

\* Change.as_md
ChangeAsMd(change, exclude_users) ==
    change.text \o <<" (">>
        \o Join([i \in 1..Cardinality(change.pull_requests) |->
                     PullRequestAsMd(IterationOrder(change.pull_requests)[i], exclude_users)],
                <<", ">>)
        \o <<")">>

\* the backquote of const.MD_MONO_PATTERN
BACKQUOTE == "'"

\* the position of the first backquote at or after i, 0 when there is none
RECURSIVE NextBackquote(_, _)
NextBackquote(text, i) ==
    IF i > Len(text) THEN 0
    ELSE IF text[i] = BACKQUOTE THEN i
    ELSE NextBackquote(text, i + 1)

\* MD_MONO_PATTERN.sub(open \1 close, text), scanning from position i: a
\* backquote, at least one character that is none, and a backquote
RECURSIVE MdMonoSub(_, _, _, _)
MdMonoSub(text, i, open, close) ==
    IF i > Len(text) THEN <<>>
    ELSE IF text[i] = BACKQUOTE /\ NextBackquote(text, i + 1) > i + 1
         THEN <<open>> \o SubSeq(text, i + 1, NextBackquote(text, i + 1) - 1)
                  \o <<close>>
                  \o MdMonoSub(text, NextBackquote(text, i + 1) + 1, open, close)
         ELSE <<text[i]>> \o MdMonoSub(text, i + 1, open, close)

\* Change.as_html
ChangeAsHtml(change, exclude_users) ==
    MdMonoSub(change.text, 1, "<code>", "</code>") \o <<" (">>
        \o Join([i \in 1..Cardinality(change.pull_requests) |->
                     PullRequestAsHtml(IterationOrder(change.pull_requests)[i], exclude_users)],
                <<", ">>)
        \o <<")">>

\* Change.as_rst
ChangeAsRst(change, exclude_users) ==
    MdMonoSub(change.text, 1, "''", "''") \o <<" (">>
        \o Join([i \in 1..Cardinality(change.pull_requests) |->
                     PullRequestAsRst(IterationOrder(change.pull_requests)[i], exclude_users)],
                <<", ">>)
        \o <<")">>

(***************************************************************************)
(* changelog.py: ChangeBlock and Changelog.  A block and the changelog     *)
(* hold references to the same Change objects: a Change is named by its    *)
(* position in Changelog.changes.                                          *)
(***************************************************************************)
\* ChangeBlock(title=title)
ChangeBlock(title) == [title |-> title, changes |-> <<>>]

\* a plausible slip: the change is put in front of the block
AddChangeInFront(block, change) == [block EXCEPT !.changes = <<change>> \o @]

\* ChangeBlock.add_change
AddChange(block, change) == [block EXCEPT !.changes = Append(@, change)]

\* Changelog(version=version): no changes, one empty block per category
NewChangelog ==
    [ changes |-> <<>>,
      change_blocks |-> [category \in Range(ChangeCategory) |-> ChangeBlock(category)] ]

\* a plausible slip: the numbers of the last Change only
GetLastThreadNumbers(log) ==
    IF log.changes = <<>> THEN {} ELSE log.changes[Len(log.changes)].thread_numbers

\* Changelog.get_all_thread_numbers
GetAllThreadNumbers(log) ==
    UNION {log.changes[i].thread_numbers : i \in DOMAIN log.changes}

\* a plausible slip: a block without changes is rendered, too
HasChangesAlways(block) == TRUE

\* ChangeBlock.has_changes
HasChanges(block) == block.changes # <<>>

\* len() of a piece that stands for more than one character
PieceLen(piece) ==
    CASE piece = "Version " -> 8
      [] piece = "Major Changes" -> 13
      [] piece = "Minor Changes" -> 13
      [] piece = "New Features" -> 12
      [] piece = "Bug Fixes" -> 9
      [] piece = "Documentation Improvements" -> 26
      [] piece = "Internal Changes" -> 16
      [] piece = "Dependency Updates" -> 18
      [] OTHER -> 1

\* len(text)
RECURSIVE StrLen(_)
StrLen(text) == IF text = <<>> THEN 0 ELSE PieceLen(Head(text)) + StrLen(Tail(text))

\* char * n
Repeat(char, n) == [i \in 1..n |-> char]

\* the bullet U+2022 and the blank after it
BULLET == "[bullet] "

\* the changes of a block as the lines of a list
BlockLines(rendered, bullet) ==
    Join([p \in DOMAIN rendered |-> <<bullet>> \o rendered[p]], <<"\n">>)

\* ChangeBlock.as_md
BlockAsMd(log, block, exclude_users) ==
    <<"## ", block.title, "\n">>
        \o BlockLines([p \in DOMAIN block.changes |->
                           ChangeAsMd(log.changes[block.changes[p]], exclude_users)],
                      "- ")

\* ChangeBlock.as_html
BlockAsHtml(log, block, exclude_users) ==
    <<"<b>", block.title, "</b>\n\n">>
        \o BlockLines([p \in DOMAIN block.changes |->
                           ChangeAsHtml(log.changes[block.changes[p]], exclude_users)],
                      BULLET)

\* ChangeBlock.as_rst
BlockAsRst(log, block, exclude_users) ==
    <<block.title, "\n">> \o Repeat("-", StrLen(<<block.title>>)) \o <<"\n\n">>
        \o BlockLines([p \in DOMAIN block.changes |->
                           ChangeAsRst(log.changes[block.changes[p]], exclude_users)],
                      "- ")

\* Changelog._sorted_blocks: the blocks in the order of ChangeCategory
SortedBlocks(log) ==
    LET present == SelectSeq(ChangeCategory,
                             LAMBDA category : category \in DOMAIN log.change_blocks)
    IN  [k \in DOMAIN present |-> log.change_blocks[present[k]]]

\* block for block in self._sorted_blocks if block.has_changes()
BlocksWithChanges(log) == SelectSeq(SortedBlocks(log), HasChanges)

\* self.date.isoformat(): the day of the run, an opaque string
TODAY == "date.today().isoformat()"

\* Changelog.as_md
ChangelogAsMd(log, version, exclude_users) ==
    LET header ==
            <<"# Version ">> \o VersionStr(version)
                \o <<"\n*Released ", TODAY, "*\n\n",
                     "This is the technical changelog for version ">>
                \o VersionStr(version)
                \o <<". More elaborate release notes can be found in the news channel [@pythontelegrambotchannel](https://t.me/pythontelegrambotchannel).">>
        blocks == BlocksWithChanges(log)
    IN  header \o <<"\n\n">>
            \o Join([k \in DOMAIN blocks |-> BlockAsMd(log, blocks[k], exclude_users)],
                    <<"\n\n">>)

\* Changelog.as_html
ChangelogAsHtml(log, version, exclude_users) ==
    LET header ==
            <<"<b>We've just released v">> \o VersionStr(version)
                \o <<".</b>\n",
                     "Thank you to everyone who contributed to this release.\n",
                     "As usual, upgrade using <code>pip install -U python-telegram-bot</code>.\n\n",
                     "For the full list of changes and improvements, please see the below changelog.">>
        blocks == BlocksWithChanges(log)
    IN  header \o <<"\n\n">>
            \o Join([k \in DOMAIN blocks |-> BlockAsHtml(log, blocks[k], exclude_users)],
                    <<"\n\n">>)

\* Changelog.as_rst
ChangelogAsRst(log, version, exclude_users) ==
    LET title == <<"Version ">> \o VersionStr(version)
        header ==
            title \o <<"\n">> \o Repeat("=", StrLen(title)) \o <<"\n\n">>
                \o <<"*Released ", TODAY, "*\n\n",
                     "This is the technical changelog for version ">>
                \o VersionStr(version)
                \o <<". More elaborate release notes can be found in the news channel '@pythontelegrambotchannel <https://t.me/pythontelegrambotchannel>'_.">>
        blocks == BlocksWithChanges(log)
    IN  header \o <<"\n\n">>
            \o Join([k \in DOMAIN blocks |-> BlockAsRst(log, blocks[k], exclude_users)],
                    <<"\n\n">>)

\* a plausible slip: the block is chosen before the change is classified
BlockKeyBeforeUpdate(before, after) == before.category

\* the key change.category of update_changes_from_pull_requests, the change
\* as it was before and as it is after update_from_pull_requests
BlockKey(before, after) == after.category

(***************************************************************************)
(* githubtypes.py: Commit.  The truncation marker, the one character       *)
(* U+2026, is the piece ELLIPSIS.                                          *)
(***************************************************************************)
ELLIPSIS == "..."

Commit(messageHeadline, messageBody) ==
    [messageHeadline |-> messageHeadline, messageBody |-> messageBody]

\* text.split("\n")[0]
RECURSIVE FirstLine(_)
FirstLine(text) ==
    IF text = <<>> \/ Head(text) = "\n" THEN <<>>
    ELSE <<Head(text)>> \o FirstLine(Tail(text))

\* text.rstrip(marker): the marker removed from the end, as often as it is
\* there; as a stand-in for strip it is a plausible slip
RECURSIVE RStripMarker(_, _)
RStripMarker(text, marker) ==
    IF text = <<>> THEN <<>>
    ELSE IF text[Len(text)] = marker
         THEN RStripMarker(SubSeq(text, 1, Len(text) - 1), marker)
    ELSE text

\* text.strip(marker): the marker removed from both ends, as often as it is there
RECURSIVE StripMarker(_, _)
StripMarker(text, marker) ==
    IF text = <<>> THEN <<>>
    ELSE IF Head(text) = marker THEN StripMarker(Tail(text), marker)
    ELSE IF text[Len(text)] = marker
         THEN StripMarker(SubSeq(text, 1, Len(text) - 1), marker)
    ELSE text

\* Commit.effective_text
EffectiveText(commit) ==
    IF commit.messageHeadline # <<>>
           /\ commit.messageHeadline[Len(commit.messageHeadline)] = ELLIPSIS
    THEN SubSeq(commit.messageHeadline, 1, Len(commit.messageHeadline) - 1)
             \o StripMarker(FirstLine(commit.messageBody), ELLIPSIS)
    ELSE commit.messageHeadline

(***************************************************************************)
(* graphqlclient.py: the table get_threads builds from the response.       *)
(***************************************************************************)
\* a request of _do_request: the query, the thread numbers inserted into
\* it (getThreads) and the variable "after" (getCommitsSince; Null when the
\* variable is not sent)
Request(query, numbers, after) ==
    [query |-> query, numbers |-> numbers, after |-> after]

\* CommitHistoryConnection: the nodes (None or Some(tuple)) and the two
\* fields of its pageInfo
CommitHistoryConnection(nodes, endCursor, hasNextPage) ==
    [nodes |-> nodes, endCursor |-> endCursor, hasNextPage |-> hasNextPage]

\* "commit_history_connection.nodes" as a condition: the tuple is there and
\* is not empty
HasCommits(connection) == IsSome(connection.nodes) /\ Get(connection.nodes) # <<>>

\* a plausible slip: the cursor of the first page is sent again and again
StaleCursor(received) ==
    IF received = <<>> THEN Null ELSE received[1].endCursor

\* the variable "after" of the next getCommitsSince request: not sent with
\* the first request, then commit_history_connection.pageInfo.endCursor
AfterCursor(received) ==
    IF received = <<>> THEN Null ELSE received[Len(received)].endCursor

\* the list "commits" once a page has arrived: list(nodes) or [] for the
\* first page, extended by the nodes of a later page that has any
WithPage(fetched, connection, first) ==
    IF HasCommits(connection) THEN fetched \o Get(connection.nodes)
    ELSE IF first THEN <<>>
    ELSE fetched

\* by_number[key] = value
Put(by_number, key, value) ==
    [k \in DOMAIN by_number \cup {key} |-> IF k = key THEN value ELSE by_number[k]]

\* for issue in obj.closingIssuesReferences.nodes: by_number[issue.number] = issue
RECURSIVE PutIssues(_, _)
PutIssues(by_number, issues) ==
    IF issues = <<>> THEN by_number
    ELSE PutIssues(Put(by_number, Head(issues).number, Head(issues)), Tail(issues))

\* a plausible slip: the closed issues of a pull request are not entered
WithEntryItselfOnly(by_number, entry) ==
    IF ~IsSome(entry) THEN by_number
    ELSE Put(by_number, Get(entry).number, Get(entry))

\* the body of the loop over data.values() for one entry: None is skipped
WithEntry(by_number, entry) ==
    IF ~IsSome(entry) THEN by_number
    ELSE IF Get(entry).typename = "PullRequest"
         THEN PutIssues(Put(by_number, Get(entry).number, Get(entry)),
                        ClosingNodes(Get(entry)))
         ELSE Put(by_number, Get(entry).number, Get(entry))

\* the warnings of the loop over data.values(): cls(**entry) for every entry
\* that is not None
RECURSIVE EntriesWarnings(_)
EntriesWarnings(entries) ==
    IF entries = <<>> THEN <<>>
    ELSE (IF IsSome(Head(entries)) THEN ConstructionWarnings(Get(Head(entries)))
          ELSE <<>>)
             \o EntriesWarnings(Tail(entries))

\* the loop over data.values(), the entries in the order of the response
RECURSIVE ByNumber(_, _)
ByNumber(by_number, entries) ==
    IF entries = <<>> THEN by_number
    ELSE ByNumber(WithEntry(by_number, Head(entries)), Tail(entries))

(***************************************************************************)
(* ptb.py: the patches of the repository.  The text of a file is a         *)
(* sequence of pieces: a run of white space, a digit, a punctuation mark,  *)
(* a key of the version marker with its "=", a word.                       *)
(***************************************************************************)
\* the beginning of VERSION_PATTERN, up to the parenthesis
VERSION_HEAD == "__version_info__: Final[Version] = Version("

\* the pieces that \s matches
WhiteSpace == {" ", "\n", "\n    "}

\* the pieces that [\"a-z] matches
QuotesAndLetters == {"\""} \cup ReleaseLevels

\* the part of a regular expression: a literal piece, or pieces of a class,
\* any number of them (min 0) or at least one (min 1), which may be the
\* named group of a key
Literal(piece) == [kind |-> "literal", piece |-> piece]

Repeated(class, min, key) == [kind |-> "class", class |-> class, min |-> min, key |-> key]

\* (?P<key>\d+),\s* with the key and its "=" before it
NumberField(key) ==
    << Literal(key), Repeated(Range(DigitChars), 1, key), Literal(","),
       Repeated(WhiteSpace, 0, Null) >>

VERSION_PATTERN ==
    << Literal(VERSION_HEAD), Repeated(WhiteSpace, 0, Null) >>
        \o NumberField("major=") \o NumberField("minor=") \o NumberField("micro=")
        \o << Literal("releaselevel="), Repeated(QuotesAndLetters, 1, "releaselevel="),
              Literal(","), Repeated(WhiteSpace, 0, Null) >>
        \o << Literal("serial="), Repeated(Range(DigitChars), 1, "serial="),
              Repeated(WhiteSpace, 0, Null), Literal(")") >>

\* the position after the longest run of pieces of a class that begins at i
RECURSIVE ClassEnd(_, _, _)
ClassEnd(text, i, class) ==
    IF i <= Len(text) /\ text[i] \in class THEN ClassEnd(text, i + 1, class) ELSE i

\* the pattern from its k-th part on matches at i: the position after the
\* match, or 0; no part of VERSION_PATTERN can give back what it has taken
RECURSIVE MatchEnd(_, _, _, _)
MatchEnd(text, i, pattern, k) ==
    IF k > Len(pattern) THEN i
    ELSE IF pattern[k].kind = "literal"
         THEN IF i <= Len(text) /\ text[i] = pattern[k].piece
              THEN MatchEnd(text, i + 1, pattern, k + 1)
              ELSE 0
         ELSE IF ClassEnd(text, i, pattern[k].class) - i >= pattern[k].min
              THEN MatchEnd(text, ClassEnd(text, i, pattern[k].class), pattern, k + 1)
              ELSE 0

\* format_value(getattr(new_version, key))
FormatValue(new_version, key) ==
    CASE key = "major=" -> StrOfInt(new_version.major)
      [] key = "minor=" -> StrOfInt(new_version.minor)
      [] key = "micro=" -> StrOfInt(new_version.micro)
      [] key = "serial=" -> StrOfInt(new_version.serial)
      [] key = "releaselevel=" -> <<"\"", new_version.releaselevel, "\"">>

\* replace_version: the match that begins at i, in which the value of each
\* key is replaced with the value of the new version
RECURSIVE ReplaceVersion(_, _, _, _, _)
ReplaceVersion(text, i, pattern, k, new_version) ==
    IF k > Len(pattern) THEN <<>>
    ELSE IF pattern[k].kind = "literal"
         THEN <<text[i]>> \o ReplaceVersion(text, i + 1, pattern, k + 1, new_version)
         ELSE (IF pattern[k].key = Null
               THEN SubSeq(text, i, ClassEnd(text, i, pattern[k].class) - 1)
               ELSE FormatValue(new_version, pattern[k].key))
                  \o ReplaceVersion(text, ClassEnd(text, i, pattern[k].class), pattern,
                                    k + 1, new_version)

\* re.sub(VERSION_PATTERN, replace_version, text) from position i on: every
\* match is replaced, what matches nowhere is kept
RECURSIVE SubVersion(_, _, _)
SubVersion(text, i, new_version) ==
    IF i > Len(text) THEN <<>>
    ELSE IF MatchEnd(text, i, VERSION_PATTERN, 1) # 0
         THEN ReplaceVersion(text, i, VERSION_PATTERN, 1, new_version)
                  \o SubVersion(text, MatchEnd(text, i, VERSION_PATTERN, 1), new_version)
         ELSE <<text[i]>> \o SubVersion(text, i + 1, new_version)

\* the pattern of update_changelog: the heading of CHANGES.rst
CHANGELOG_ANCHOR == <<"Changelog", "\n", "=========">>

\* the anchor begins at i
AnchorAt(text, i) ==
    /\ i + Len(CHANGELOG_ANCHOR) - 1 <= Len(text)
    /\ SubSeq(text, i, i + Len(CHANGELOG_ANCHOR) - 1) = CHANGELOG_ANCHOR

\* re.sub("Changelog\n=========", "Changelog\n=========\n\n{changelog}", text)
\* from position i on
RECURSIVE SubChangelog(_, _, _)
SubChangelog(text, i, rendered) ==
    IF i > Len(text) THEN <<>>
    ELSE IF AnchorAt(text, i)
         THEN CHANGELOG_ANCHOR \o <<"\n\n">> \o rendered
                  \o SubChangelog(text, i + Len(CHANGELOG_ANCHOR), rendered)
         ELSE <<text[i]>> \o SubChangelog(text, i + 1, rendered)

\* text.replace("NEXT.VERSION", str(next_version))
RECURSIVE ReplaceNextVersion(_, _)
ReplaceNextVersion(text, next_version) ==
    IF text = <<>> THEN <<>>
    ELSE (IF Head(text) = "NEXT.VERSION" THEN VersionStr(next_version) ELSE <<Head(text)>>)
             \o ReplaceNextVersion(Tail(text), next_version)

\* update_version: the text that is written to telegram/_version.py
UpdateVersion(text, new_version) == SubVersion(text, 1, new_version)

\* update_changelog: the text that is written to CHANGES.rst
UpdateChangelog(text, rendered) == SubChangelog(text, 1, rendered)

(***************************************************************************)
(* Constructing a Change from a text.                                      *)
(***************************************************************************)
TextAlphabet == {"#", "0", "1", " ", "(", ")", ","}

NoChangelog == [changes |-> <<>>, change_blocks |-> <<>>]

\* no object has been constructed
NoHeap == <<>>

\* no repository is at hand
NoFiles ==
    [ docs_md |-> <<>>, tg_md |-> <<>>, docs_rst |-> <<>>, tg_html |-> <<>>,
      version_file |-> <<>>, changes_rst |-> <<>> ]

\* no build_for_version is under way
NoBuild ==
    /\ commits = <<>>
    /\ changelog = NoChangelog
    /\ threads = Null
    /\ idx = 0
    /\ calls = <<>>
    /\ requests = <<>>
    /\ responses = <<>>
    /\ warnings = <<>>
    /\ files = NoFiles
    /\ steps = <<>>
    /\ heap = NoHeap

InitText ==
    /\ pc = "call"
    /\ args \in {[text |-> t] : t \in SeqsUpTo(TextAlphabet, MaxTextLen)}
    /\ result = Null
    /\ NoBuild

ConstructChange ==
    /\ pc = "call"
    /\ result' = ChangeInit(args.text)
    /\ pc' = "done"
    /\ UNCHANGED <<args, buildVars>>

NextText == ConstructChange

SpecText == InitText /\ [][NextText]_vars

\* C7: on construction of a Change from a text, thread_numbers is exactly
\* the set of integers n such that "#n" -- a '#' followed by a maximal run
\* of digits -- occurs in the original text; a number referenced twice is
\* one element, and the order of the occurrences plays no part.
C7_ThreadNumbersAreTheReferences ==
    pc = "done" =>
        result.thread_numbers =
            { IntOf(args.text, i + 1, RunEnd(args.text, i + 1)) :
                  i \in {k \in 1..Len(args.text) : ThreadMatchAt(args.text, k)} }

\* "#1#01": two references to thread 1, which make one element
C7_Witness ==
    /\ pc = "done"
    /\ args.text = <<"#", "1", "#", "0", "1">>
    /\ result.thread_numbers = {1}


(***************************************************************************)
(* Writing a Version as a string.                                          *)
(***************************************************************************)
\* the parts of the versions of the model: small numbers and one of two digits
VersionParts == (0..MaxVersionPart) \cup {13}

InitVersion ==
    /\ pc = "call"
    /\ args \in { [version |-> Version(major, minor, micro, releaselevel, serial)] :
                      major \in VersionParts, minor \in VersionParts,
                      micro \in VersionParts, releaselevel \in ReleaseLevels,
                      serial \in VersionParts }
    /\ result = Null
    /\ NoBuild

\* str(version)
CallVersionStr ==
    /\ pc = "call"
    /\ result' = VersionStr(args.version)
    /\ pc' = "str"
    /\ UNCHANGED <<args, buildVars>>

NextVersion == CallVersionStr

SpecVersion == InitVersion /\ [][NextVersion]_vars

\* how often a piece occurs in a text
Count(text, piece) == Cardinality({i \in DOMAIN text : text[i] = piece})

\* the longest run of digits at the end of a text
RECURSIVE TrailingDigits(_)
TrailingDigits(text) ==
    IF text = <<>> \/ ~IsDigit(text[Len(text)]) THEN <<>>
    ELSE TrailingDigits(SubSeq(text, 1, Len(text) - 1)) \o <<text[Len(text)]>>

\* C14: str(Version) is "major.minor", followed by ".micro" iff micro # 0,
\* followed by the shorthand of the release level (a, b, rc) and the serial
\* iff the release level is not final.
C14_VersionString ==
    pc = "str" =>
        LET v == args.version
            head == StrOfInt(v.major) \o <<".">> \o StrOfInt(v.minor)
            micro == IF v.micro # 0 THEN <<".">> \o StrOfInt(v.micro) ELSE <<>>
            shorthand == CASE v.releaselevel = "alpha" -> <<"a">>
                           [] v.releaselevel = "beta" -> <<"b">>
                           [] v.releaselevel = "candidate" -> <<"r", "c">>
                           [] OTHER -> <<>>
            suffix == IF v.releaselevel # "final"
                      THEN shorthand \o StrOfInt(v.serial) ELSE <<>>
        IN  /\ result = head \o micro \o suffix
            /\ Count(result, ".") = (IF v.micro = 0 THEN 1 ELSE 2)
            /\ (v.releaselevel = "final")
                   <=> \A i \in DOMAIN result : IsDigit(result[i]) \/ result[i] = "."
            /\ (v = Version(3, 0, 0, "final", 0)) => result = <<"3", ".", "0">>
            /\ (v = Version(3, 0, 1, "final", 0))
                   => result = <<"3", ".", "0", ".", "1">>
            /\ (v = Version(3, 0, 0, "alpha", 2))
                   => result = <<"3", ".", "0", "a", "2">>

\* a release candidate without a micro part: (3, 0, 0, candidate, 1) is "3.0rc1"
C14_Witness ==
    /\ pc = "str"
    /\ args.version = Version(3, 0, 0, "candidate", 1)
    /\ result = <<"3", ".", "0", "r", "c", "1">>


(***************************************************************************)
(* GraphQLClient.get_commits_since against a forge that pages its answer.  *)
(***************************************************************************)
\* the commits of the history of the forge
PageCommits == {Commit(<<"x">>, <<>>), Commit(<<"y">>, <<>>)}

\* the cursor that ends the k-th page: an opaque string, one per page
CursorOf(k) ==
    CASE k = 1 -> "cursor:1"
      [] k = 2 -> "cursor:2"
      [] k = 3 -> "cursor:3"
      [] OTHER -> "cursor:n"

\* what the forge may answer as its k-th page: no nodes, an empty tuple or
\* some commits, and whether more pages follow; the forge ends its history
\* with page MaxPages at the latest
ForgePages(k) ==
    { CommitHistoryConnection(nodes,
                              IF nodes = None \/ nodes = Some(<<>>)
                              THEN Null ELSE CursorOf(k),
                              hasNextPage) :
          nodes \in {None} \cup {Some(page) : page \in SeqsUpTo(PageCommits, MaxPageLen)},
          hasNextPage \in IF k < MaxPages THEN BOOLEAN ELSE {FALSE} }

InitCommits ==
    /\ pc = "request"
    /\ args = [date |-> "2023-01-01T00:00:01"]
    /\ result = Null
    /\ commits = <<>>
    /\ changelog = NoChangelog
    /\ threads = Null
    /\ idx = 0
    /\ calls = <<>>
    /\ requests = <<>>
    /\ responses = <<>>
    /\ warnings = <<>>
    /\ files = NoFiles
    /\ steps = <<>>
    /\ heap = NoHeap

\* await self._do_request(query_name="getCommitsSince", ...) up to the await:
\* the request is sent, after the first one with the cursor of the page
\* received last
SendPageRequest ==
    /\ pc = "request"
    /\ requests' = Append(requests,
                          Request("getCommitsSince", {}, AfterCursor(responses)))
    /\ pc' = "await"
    /\ UNCHANGED <<args, result, commits, changelog, threads, idx, calls,
                   responses, warnings, files, steps, heap>>

\* the response arrives: the page becomes commit_history_connection, its
\* nodes are taken into "commits", and the loop condition is read
ReceivePage ==
    /\ pc = "await"
    /\ \E connection \in ForgePages(Len(responses) + 1) :
           /\ responses' = Append(responses, connection)
           /\ commits' = WithPage(commits, connection, responses = <<>>)
           /\ pc' = IF connection.hasNextPage THEN "request" ELSE "return"
    /\ UNCHANGED <<args, result, changelog, threads, idx, calls, requests,
                   warnings, files, steps, heap>>

\* return tuple(commits)
ReturnCommits ==
    /\ pc = "return"
    /\ result' = commits
    /\ pc' = "returned"
    /\ UNCHANGED <<args, commits, changelog, threads, idx, calls, requests,
                   responses, warnings, files, steps, heap>>

NextCommits == SendPageRequest \/ ReceivePage \/ ReturnCommits

\* the coroutine is run to its end, and the forge answers every request
SpecCommits == InitCommits /\ [][NextCommits]_vars /\ WF_vars(NextCommits)

\* the commits of the pages, in the order of the pages
RECURSIVE AllPages(_)
AllPages(pages) ==
    IF pages = <<>> THEN <<>>
    ELSE (IF Head(pages).nodes = None THEN <<>> ELSE Head(pages).nodes[1])
             \o AllPages(Tail(pages))

\* the pages are retrieved one after another, each request with the cursor
\* of the response before it, until the first page without a next page
PagingIsSequential ==
    /\ Len(requests) \in {Len(responses), Len(responses) + 1}
    /\ (Len(requests) = Len(responses) + 1) <=> (pc = "await")
    /\ \A k \in DOMAIN requests :
           /\ requests[k].query = "getCommitsSince"
           /\ requests[k].after = (IF k = 1 THEN Null ELSE responses[k - 1].endCursor)
    /\ \A k \in DOMAIN responses :
           responses[k].hasNextPage <=> (k < Len(responses) \/ pc \in {"request", "await"})
    /\ pc \in {"return", "returned"}
           => /\ responses # <<>>
              /\ ~responses[Len(responses)].hasNextPage
              /\ commits = AllPages(responses)
    /\ pc = "returned" => result = AllPages(responses)

\* C20: get_commits_since retrieves the pages strictly one after another:
\* each request after the first is sent only after the response before it
\* has arrived and carries the endCursor of that response; the loop ends at
\* the first response whose hasNextPage is false, which comes about when
\* the forge returns such a response; and the tuple returned is the
\* concatenation of the commits of all pages in page order, none dropped
\* and none twice.
C20_PagesOneAfterAnother == []PagingIsSequential /\ <>(pc = "returned")

\* three pages, the second without nodes: the third request carries the
\* cursor of the second response, and the commits of the two other pages
\* are returned in page order
C20_Witness ==
    /\ pc = "returned"
    /\ Len(responses) = 3
    /\ responses[2].nodes = None
    /\ requests[2].after = "cursor:1"
    /\ requests[3].after = Null
    /\ result = <<Commit(<<"x">>, <<>>), Commit(<<"y">>, <<>>)>>


(***************************************************************************)
(* The effective text of a Commit.                                         *)
(***************************************************************************)
InitCommitText ==
    /\ pc = "call"
    /\ args \in { [commit |-> Commit(headline, body)] :
                      headline \in SeqsUpTo({"h", ELLIPSIS}, MaxHeadlineLen),
                      body \in SeqsUpTo({"b", ELLIPSIS, "\n"}, MaxBodyLen) }
    /\ result = Null
    /\ NoBuild

\* commit.effective_text()
CallEffectiveText ==
    /\ pc = "call"
    /\ result' = EffectiveText(args.commit)
    /\ pc' = "text"
    /\ UNCHANGED <<args, buildVars>>

NextCommitText == CallEffectiveText

SpecCommitText == InitCommitText /\ [][NextCommitText]_vars

\* whether the headline ends with the truncation marker
IsTruncated(headline) == headline # <<>> /\ headline[Len(headline)] = ELLIPSIS

\* the part of the body before its first line break
BodyLine(body) ==
    LET breaks == {k \in DOMAIN body : body[k] = "\n"}
    IN  IF breaks = {} THEN body
        ELSE SubSeq(body, 1, (CHOOSE k \in breaks : \A j \in breaks : k <= j) - 1)

\* the line without the truncation markers at its end
WithoutTrailingMarkers(line) ==
    LET kept == {k \in DOMAIN line : line[k] # ELLIPSIS}
    IN  IF kept = {} THEN <<>>
        ELSE SubSeq(line, 1, CHOOSE k \in kept : \A j \in kept : j <= k)

\* the line without the truncation markers at its beginning and at its end
WithoutOuterMarkers(line) ==
    LET kept == {k \in DOMAIN line : line[k] # ELLIPSIS}
    IN  IF kept = {} THEN <<>>
        ELSE SubSeq(line, CHOOSE k \in kept : \A j \in kept : k <= j,
                          CHOOSE k \in kept : \A j \in kept : j <= k)

\* C16 as stated: a headline that does not end with the truncation marker is
\* returned unchanged; for one that does, the result is the headline
\* without its final marker followed by the first line of the body from
\* which the trailing truncation marker has been stripped, the rest of the
\* line being kept as it is.
C16_TrailingMarkerStripped ==
    pc = "text" =>
        LET headline == args.commit.messageHeadline
        IN  IF IsTruncated(headline)
            THEN result = SubSeq(headline, 1, Len(headline) - 1)
                              \o WithoutTrailingMarkers(BodyLine(args.commit.messageBody))
            ELSE result = headline

\* C16, amended: as stated, but the truncation markers are stripped from
\* both ends of the first line of the body, every one of them.
C16_OuterMarkersStripped ==
    pc = "text" =>
        LET headline == args.commit.messageHeadline
        IN  IF IsTruncated(headline)
            THEN result = SubSeq(headline, 1, Len(headline) - 1)
                              \o WithoutOuterMarkers(BodyLine(args.commit.messageBody))
            ELSE result = headline

\* a truncated headline whose body goes on with a marker, as the forge
\* writes it, and has a second line
C16_Witness ==
    /\ pc = "text"
    /\ args.commit = Commit(<<"h", ELLIPSIS>>, <<ELLIPSIS, "b", "\n">>)
    /\ result = <<"h", "b">>


(***************************************************************************)
(* Rendering a PullRequest and computing its effective labels.             *)
(***************************************************************************)
ALICE == User("alice", "https://github.com/alice")

\* a lightly populated record of the same user
ALICE_STUB == User("alice", "")

BOB == User("bob", "https://github.com/bob")

Authors == {ALICE, BOB, DEPENDABOT_USER, PRE_COMMIT_CI_USER}

ExcludableUsers == {ALICE, ALICE_STUB, BOB}

BUG_LABEL == Label(":bug: bug", Null)

DOC_LABEL == Label(":gear: documentation", "Improvements of the documentation")

\* the label of that name as another repository has it, without description
BARE_DOC_LABEL == Label(":gear: documentation", Null)

Labels == {BUG_LABEL, DOC_LABEL, BARE_DOC_LABEL}

FEATURE_LABEL == Label(":bulb: feature", Null)

\* labels whose names are no markers of the rule table
ENHANCEMENT_LABEL == Label("enhancement", Null)

PLAIN_BUG_LABEL == Label("bug", Null)

LabelConnections ==
    {None, Connection(None, FALSE)}
        \cup {Connection(Some(nodes), FALSE) : nodes \in SeqsUpTo(Labels, MaxLabels)}

\* the URL of a thread: an opaque string, one per thread number
ThreadUrl(n) ==
    CASE n = 1 -> "https://github.com/o/r/issues/1"
      [] n = 10 -> "https://github.com/o/r/pull/10"
      [] n = 11 -> "https://github.com/o/r/pull/11"
      [] n = 2 -> "https://github.com/o/r/issues/2"
      [] OTHER -> "https://github.com/o/r/issues/0"

\* the issues a pull request of the model may close
ClosableIssues ==
    { Issue(n, ThreadUrl(n), labels, BOB, None) :
          n \in {1, 11}, labels \in {None, Connection(Some(<<DOC_LABEL>>), FALSE)} }

ClosingConnections ==
    {None, Connection(None, FALSE)}
        \cup {Connection(Some(nodes), FALSE) : nodes \in SeqsUpTo(ClosableIssues, MaxClosing)}

PullRequests ==
    { PullRequest(10, ThreadUrl(10), author, closing, labels) :
          author \in Authors, closing \in ClosingConnections,
          labels \in LabelConnections }

InitPullRequest ==
    /\ pc = "call"
    /\ args \in [pr : PullRequests, exclude_users : SeqsUpTo(ExcludableUsers, MaxExclude)]
    /\ result = Null
    /\ NoBuild

\* pr.as_md(exclude_users), pr.as_html(exclude_users), pr.as_rst(exclude_users)
RenderPullRequest ==
    /\ pc = "call"
    /\ result' = [ md |-> PullRequestAsMd(args.pr, args.exclude_users),
                   html |-> PullRequestAsHtml(args.pr, args.exclude_users),
                   rst |-> PullRequestAsRst(args.pr, args.exclude_users) ]
    /\ pc' = "rendered"
    /\ UNCHANGED <<args, buildVars>>

\* pr.effective_labels()
CallEffectiveLabels ==
    /\ pc = "call"
    /\ result' = EffectiveLabels(args.pr)
    /\ pc' = "labels"
    /\ UNCHANGED <<args, buildVars>>

NextPullRequest == RenderPullRequest \/ CallEffectiveLabels

SpecPullRequest == InitPullRequest /\ [][NextPullRequest]_vars

\* the rendered texts hold no " by <author>" fragment
NoAuthorFragment ==
    /\ ~Contains(result.md, <<" by ">> \o AuthorAsMd(args.pr.author))
    /\ ~Contains(result.html, <<" by ">> \o AuthorAsHtml(args.pr.author))
    /\ ~Contains(result.rst, <<" by ">> \o AuthorAsRst(args.pr.author))

\* C4: for every PullRequest whose author is the Dependabot sentinel or the
\* pre-commit-ci sentinel (the record of githubtypes.py, login and URL), and
\* for every exclusion collection of the caller, the empty one included,
\* as_md, as_html and as_rst produce no " by <author>" fragment.
C4_SentinelsAreNeverAttributed ==
    (pc = "rendered" /\ args.pr.author \in {DEPENDABOT_USER, PRE_COMMIT_CI_USER})
        => NoAuthorFragment

\* a pull request of Dependabot rendered with an empty exclusion collection
C4_Witness ==
    /\ pc = "rendered"
    /\ args.pr.author = DEPENDABOT_USER
    /\ args.exclude_users = <<>>
    /\ ~HasNodes(args.pr.closingIssuesReferences)
    /\ result.md = <<"#", "1", "0">>

\* C5: author exclusion is decided by login equality only: whenever the
\* login of the author equals the login of a user of the exclusion
\* collection, the rendered text has no " by <author>" fragment, whatever
\* the profile URLs of the two records.
C5_ExclusionByLoginOnly ==
    (pc = "rendered"
        /\ \E u \in Range(args.exclude_users) : u.login = args.pr.author.login)
        => NoAuthorFragment

\* the author is excluded: its login is the login of a user of the
\* collection of the caller or of one of the two sentinels
IsExcluded(author, exclude_users) ==
    \E u \in Range(exclude_users) \cup {DEPENDABOT_USER, PRE_COMMIT_CI_USER} :
        u.login = author.login

\* the structure C17 gives a rendered pull request: the reference, the
\* author unless excluded, and the closed issues: one reference, or all but
\* the last joined by ", ", then " and " and the last
RenderedStructure(reference, author, excluded, issues) ==
    reference
        \o (IF excluded THEN <<>> ELSE <<" by ">> \o author)
        \o (IF issues = <<>> THEN <<>>
            ELSE IF Len(issues) = 1 THEN <<" closes ">> \o issues[1]
            ELSE <<" closes ">> \o Join(SubSeq(issues, 1, Len(issues) - 1), <<", ">>)
                     \o <<" ", "and ">> \o issues[Len(issues)])

\* the closing-issues list of a pull request, empty when there is none
ClosingList(pr) ==
    IF pr.closingIssuesReferences = None THEN <<>>
    ELSE IF pr.closingIssuesReferences[1].nodes = None THEN <<>>
    ELSE pr.closingIssuesReferences[1].nodes[1]

\* C17: in every output format a pull request is rendered as its reference,
\* then " by <author>" iff the author is not excluded, then, iff it closes
\* an issue, " closes " and the issue references in the order of the
\* closing-issues list: a single one alone, two or more with ", " between
\* all but the last and " and " before the last.  The three formats differ
\* in the syntax of the references only.
C17_RenderedStructure ==
    pc = "rendered" =>
        LET pr == args.pr
            excluded == IsExcluded(pr.author, args.exclude_users)
            issues == ClosingList(pr)
        IN  /\ result.md =
                   RenderedStructure(<<"#">> \o StrOfInt(pr.number),
                                     <<pr.author.login>>, excluded,
                                     [i \in DOMAIN issues |-> StrOfInt(issues[i].number)])
            /\ result.html =
                   RenderedStructure(
                       <<"<a href=\"", pr.url, "\">", "#">> \o StrOfInt(pr.number) \o <<"</a>">>,
                       <<"<a href=\"", pr.author.url, "\">", pr.author.login, "</a>">>,
                       excluded,
                       [i \in DOMAIN issues |->
                            <<"<a href=\"", issues[i].url, "\">", "#">>
                                \o StrOfInt(issues[i].number) \o <<"</a>">>])
            /\ result.rst =
                   RenderedStructure(
                       <<":pr:'">> \o StrOfInt(pr.number) \o <<"'">>,
                       <<"'", pr.author.login, " <", pr.author.url, ">'_">>,
                       excluded,
                       [i \in DOMAIN issues |->
                            <<":issue:'">> \o StrOfInt(issues[i].number) \o <<"'">>])

\* C17 for the calls in which the membership test of the code agrees with
\* exclusion by login (no user of the collection has the login of the
\* author and another URL)
C17_StructureApartFromStubs ==
    (\A u \in Range(args.exclude_users) :
         u.login = args.pr.author.login => u.url = args.pr.author.url)
        => C17_RenderedStructure

\* the nodes of a connection as a set, an absent connection being empty
NodeSet(connection) ==
    IF connection = None THEN {}
    ELSE IF connection[1].nodes = None THEN {}
    ELSE Range(connection[1].nodes[1])

\* C6: effective_labels() is exactly the union of the pull request's own
\* labels and the labels of every issue of its closing-issues list, an
\* absent label or closing-issue connection counting as empty.
C6_EffectiveLabelsAreTheUnion ==
    pc = "labels" =>
        result = NodeSet(args.pr.labels)
                     \cup UNION { NodeSet(issue.labels) :
                                      issue \in NodeSet(args.pr.closingIssuesReferences) }

\* a pull request without labels of its own that closes one labelled issue
C6_Witness ==
    /\ pc = "labels"
    /\ args.pr.labels = None
    /\ args.pr.closingIssuesReferences
           = Connection(Some(<<Issue(1, ThreadUrl(1),
                                     Connection(Some(<<DOC_LABEL>>), FALSE), BOB, None)>>),
                        FALSE)
    /\ result = {DOC_LABEL}

\* C25: labels are identified by their name: two Label records of the same
\* name are equal whatever their descriptions, so that a set of labels such
\* as the effective labels never has two distinct elements of one name.
C25_LabelsAreIdentifiedByName ==
    pc = "labels" => \A a, b \in result : a.name = b.name => a = b


(***************************************************************************)
(* Constructing an Issue, a PullRequest or an Organization from the data   *)
(* of a response, whose connections may be truncated.                      *)
(***************************************************************************)
\* the label connections of a response: absent, or there with or without
\* nodes and with or without a next page
PagedLabelConnections ==
    {None} \cup { Connection(nodes, hasNextPage) :
                     nodes \in {None} \cup {Some(labels) : labels \in SeqsUpTo({BUG_LABEL}, MaxLabels)},
                     hasNextPage \in BOOLEAN }

\* the issues of a response
PagedIssues ==
    { Issue(1, ThreadUrl(1), labels, BOB, None) :
          labels \in {None, Connection(Some(<<BUG_LABEL>>), FALSE),
                      Connection(Some(<<BUG_LABEL>>), TRUE)} }
        \cup {Issue(2, ThreadUrl(2), Connection(Some(<<BUG_LABEL>>), TRUE), BOB, None)}

\* the tuples of closing issues of a response: an issue comes once
DistinctIssues ==
    { issues \in SeqsUpTo(PagedIssues, MaxClosing) :
          \A i, j \in DOMAIN issues : issues[i].number = issues[j].number => i = j }

PagedClosingConnections ==
    {None} \cup { Connection(nodes, hasNextPage) :
                     nodes \in {None} \cup {Some(issues) : issues \in DistinctIssues},
                     hasNextPage \in BOOLEAN }

\* the member connections of a response; None is a response without one
PagedMemberConnections ==
    {None} \cup { Connection(nodes, hasNextPage) :
                     nodes \in {None, Some(<<ALICE>>)}, hasNextPage \in BOOLEAN }

\* the data of the objects that are constructed
ConstructionData ==
    { Issue(1, ThreadUrl(1), labels, ALICE, None) : labels \in PagedLabelConnections }
        \cup { PullRequest(10, ThreadUrl(10), ALICE, closing, labels) :
                   closing \in PagedClosingConnections, labels \in PagedLabelConnections }
        \cup { Organization(members) : members \in PagedMemberConnections }

InitConstruct ==
    /\ pc = "call"
    /\ args \in [data : ConstructionData]
    /\ result = Null
    /\ NoBuild

\* cls(**data): pydantic validates the fields, where membersWithRole is the
\* one connection that has to be there, then __init__ gives its warnings
Construct ==
    /\ pc = "call"
    /\ IF args.data.typename = "Organization" /\ args.data.membersWithRole = None
       THEN /\ pc' = "ValidationError"
            /\ UNCHANGED <<result, warnings, files, steps, heap>>
       ELSE /\ result' = args.data
            /\ warnings' = warnings \o ConstructionWarnings(args.data)
            /\ pc' = "constructed"
    /\ UNCHANGED <<args, commits, changelog, threads, idx, calls, requests,
                   responses, files, steps, heap>>

NextConstruct == Construct

SpecConstruct == InitConstruct /\ [][NextConstruct]_vars

\* the connection is there and reports a next page
Truncated(connection) == IsSome(connection) /\ Get(connection).hasNextPage

\* the positions of the warnings about the nodes of one kind of a source,
\* which the message begins with
WarningsAbout(source, node_description) ==
    { i \in DOMAIN warnings :
          /\ SubSeq(warnings[i], 1, Len(source)) = source
          /\ warnings[i][Len(source) + 1] = " has more "
          /\ warnings[i][Len(source) + 2] = node_description }

\* the connections of an object with their source and node descriptions,
\* those of the issues it has among its nodes included
ConnectionsOf(object) ==
    CASE object.typename = "Issue" ->
             {<<(<<"Issue ">> \o StrOfInt(object.number)), "labels", object.labels>>}
      [] object.typename = "PullRequest" ->
             { <<(<<"PullRequest ">> \o StrOfInt(object.number) \o <<" ">>
                      \o StrOfInt(object.number)), "labels", object.labels>>,
               <<(<<"PullRequest ">> \o StrOfInt(object.number)), "closing issues",
                 object.closingIssuesReferences>> }
                 \cup { <<(<<"Issue ">> \o StrOfInt(issue.number)), "labels", issue.labels>> :
                            issue \in (IF IsSome(object.closingIssuesReferences)
                                          /\ IsSome(Get(object.closingIssuesReferences).nodes)
                                       THEN Range(Get(Get(object.closingIssuesReferences).nodes))
                                       ELSE {}) }
      [] object.typename = "Organization" ->
             {<<(<<"PTB">>), "developers", object.membersWithRole>>}

\* C21: constructing an Issue, a PullRequest or an Organization of which a
\* connection reports a next page succeeds and gives the record with the
\* nodes that were retrieved; a warning is given for each connection that
\* is truncated, and none for a connection that reports no next page or is
\* absent.
C21_TruncationIsWarnedAbout ==
    /\ (pc = "call" \/ pc = "ValidationError") => warnings = <<>>
    /\ pc = "ValidationError" =>
           \A connection \in ConnectionsOf(args.data) : ~Truncated(connection[3])
    /\ pc = "constructed" =>
           /\ result = args.data
           /\ \A connection \in ConnectionsOf(result) :
                  IF Truncated(connection[3])
                  THEN WarningsAbout(connection[1], connection[2]) # {}
                  ELSE WarningsAbout(connection[1], connection[2]) = {}
           /\ \A i \in DOMAIN warnings :
                  \E connection \in ConnectionsOf(result) :
                      /\ Truncated(connection[3])
                      /\ i \in WarningsAbout(connection[1], connection[2])

\* a pull request with a truncated list of labels and a truncated list of
\* closing issues, one of which is truncated itself: three warnings, and
\* the record has the nodes that came
C21_Witness ==
    /\ pc = "constructed"
    /\ result.typename = "PullRequest"
    /\ Truncated(result.labels)
    /\ Truncated(result.closingIssuesReferences)
    /\ ClosingNodes(result) =
           <<Issue(2, ThreadUrl(2), Connection(Some(<<BUG_LABEL>>), TRUE), BOB, None)>>
    /\ result.labels = Connection(Some(<<BUG_LABEL>>), TRUE)
    /\ Len(warnings) = 3

(***************************************************************************)
(* Resolving a category from labels and issue types.                       *)
(***************************************************************************)
\* the marker names of the rule table, and a name that is no marker
ResolvableNames == {RuleTable[k][1] : k \in DOMAIN RuleTable} \cup {"good first issue"}

InitResolve ==
    /\ pc = "call"
    /\ args \in [ labels : SeqsUpTo({Label(n, Null) : n \in ResolvableNames}, MaxNames),
                  issue_type : SeqsUpTo({IssueType(n) : n \in {":bug: bug", "Task"}}, 1) ]
    /\ result = Null
    /\ NoBuild

\* ChangeCategory.resolve_from_labels_and_types(labels, issue_type)
CallResolve ==
    /\ pc = "call"
    /\ result' = ResolveFromLabelsAndTypes(args.labels, args.issue_type)
    /\ pc' = "resolved"
    /\ UNCHANGED <<args, buildVars>>

NextResolve == CallResolve

SpecResolve == InitResolve /\ [][NextResolve]_vars

\* the names of the labels and issue types of the call
InputNames ==
    {args.labels[i].name : i \in DOMAIN args.labels}
        \cup {args.issue_type[i].name : i \in DOMAIN args.issue_type}

\* the rules whose marker is the name of an input label or issue type
MatchingRules == {k \in DOMAIN RuleTable : RuleTable[k][1] \in InputNames}

\* C1: resolve_from_labels_and_types returns the category of the first rule,
\* in the order of the rule table, whose marker is the name of an input
\* label or issue type; and every other way of supplying the same set of
\* names (reordered, repeated) gives the same category.
C1_FirstRuleWinsWhateverTheOrder ==
    pc = "resolved" =>
        /\ MatchingRules # {} =>
               result = RuleTable[CHOOSE k \in MatchingRules :
                                      \A j \in MatchingRules : k <= j][2]
        /\ \A labels \in SeqsUpTo(Range(args.labels), MaxNames),
              issue_type \in SeqsUpTo(Range(args.issue_type), 1) :
               LabelNames(labels, issue_type) = InputNames
                   => ResolveFromLabelsAndTypes(labels, issue_type) = result

\* the feature label supplied before the bug label: the earlier rule, of the
\* bug label, decides
C1_Witness ==
    /\ pc = "resolved"
    /\ args.labels = <<FEATURE_LABEL, BUG_LABEL>>
    /\ args.issue_type = <<>>
    /\ result = BUG_FIXES


(***************************************************************************)
(* main: the steps of a release, from the client to the patched            *)
(* repository.  The forge, pandoc, Telegram and the operator are the       *)
(* environment: a step that calls one of them may raise.                   *)
(***************************************************************************)
\* telegram/_version.py with the marker of a version, the white space of
\* the marker being the piece "space"
VersionFile(version, space) ==
    << "from typing import Final", "\n", VERSION_HEAD, space >>
        \o <<"major=">> \o StrOfInt(version.major) \o <<",", " ">>
        \o <<"minor=">> \o StrOfInt(version.minor) \o <<",", " ">>
        \o <<"micro=">> \o StrOfInt(version.micro) \o <<",", " ">>
        \o <<"releaselevel=", "\"", version.releaselevel, "\"", ",", " ">>
        \o <<"serial=">> \o StrOfInt(version.serial) \o <<space, ")", "\n">>

LAST_VERSION == Version(20, 0, 0, "final", 0)

\* the files telegram/_version.py of the repositories: with the marker on
\* one line or on three, with a marker that a formatter has given a comma
\* before the parenthesis, with a version that is a string, and empty
VersionFiles ==
    { VersionFile(LAST_VERSION, " "),
      VersionFile(LAST_VERSION, "\n    "),
      << VERSION_HEAD, "\n    ", "major=", "2", "0", ",", " ", "minor=", "0", ",", " ",
         "micro=", "0", ",", " ", "releaselevel=", "\"", "final", "\"", ",", " ",
         "serial=", "0", ",", "\n", ")", "\n" >>,
      << "__version__ = ", "\"", "2", "0", ".", "0", "\"", "\n" >>,
      <<>> }

\* the files CHANGES.rst of the repositories: with the heading, with the
\* heading under a line, with another heading, and empty
ChangesFiles ==
    { << ".. _ptb-changelog:", "\n\n", "Changelog", "\n", "=========", "\n\n",
         "Version 20.0", "\n", ".. versionadded:: ", "NEXT.VERSION", "\n" >>,
      << "=========", "\n", "Changelog", "\n", "=========", "\n\n", "Version 20.0", "\n" >>,
      << "Releases", "\n", "========", "\n\n", "Version 20.0", "\n" >>,
      <<>> }

MainVersions == {Version(20, 1, 0, "final", 0), Version(21, 0, 0, "candidate", 1)}

\* the Markdown of the changelog that was built, for the docs and for the
\* channel, and what the operator may make of it
MarkdownFor(target, new_version) ==
    <<"# Version ">> \o VersionStr(new_version) \o <<"\n", "changes for ", target>>

Edited(text) == text \o <<"\n", "a note of the operator">>

\* pandoc with the filter of a format: a function of the text
Pandoc(text, output_format) == <<output_format, "(">> \o text \o <<")">>

\* the statements of main, in the order of its body
MAIN ==
    << "initialize", "build_for_version", "write_text", "shutdown", "input",
       "convert_to_rst", "convert_to_tg_html", "publish_release_notes",
       "update_version", "update_changelog", "insert_next_version" >>

\* the statement after the k-th statement of a body, "returned" after its
\* last
Successor(body, statement) ==
    LET k == CHOOSE j \in DOMAIN body : body[j] = statement
    IN  IF k = Len(body) THEN "returned" ELSE body[k + 1]

\* a plausible slip: the repository is patched before the release notes are
\* published
AfterPatchingFirst(statement) ==
    Successor(<< "initialize", "build_for_version", "write_text", "shutdown", "input",
                 "convert_to_rst", "convert_to_tg_html", "update_version",
                 "update_changelog", "insert_next_version",
                 "publish_release_notes" >>, statement)

\* the statement that main goes on with
After(statement) == Successor(MAIN, statement)

\* a plausible slip: the error of the delivery is caught and the run goes on
DeliveryFailureIsLogged(statement) == After(statement)

\* an exception of bot.send_message is not caught by publish_release_notes
\* nor by main
DeliveryFailure(statement) == "raised"

InitMain ==
    /\ pc = "initialize"
    /\ args \in [ new_version : MainVersions,
                  repository : [version_file : VersionFiles, changes_rst : ChangesFiles] ]
    /\ result = Null
    /\ commits = <<>>
    /\ changelog = NoChangelog
    /\ threads = Null
    /\ idx = 0
    /\ calls = <<>>
    /\ requests = <<>>
    /\ responses = <<>>
    /\ warnings = <<>>
    /\ files = [ NoFiles EXCEPT !.version_file = args.repository.version_file,
                                !.changes_rst = args.repository.changes_rst ]
    /\ steps = <<>>
    /\ heap = NoHeap

\* the variables that main does not use
mainUnused == <<args, commits, changelog, threads, idx, calls, requests, responses,
                warnings, heap>>

\* a statement of main has finished
Finished(statement) ==
    /\ pc = statement
    /\ steps' = Append(steps, statement)
    /\ pc' = After(statement)
    /\ UNCHANGED mainUnused

\* await graphql_client.initialize()
Initialize == Finished("initialize") /\ UNCHANGED <<result, files>>

\* changelog = await Changelog.build_for_version(...)
BuildForVersion == Finished("build_for_version") /\ UNCHANGED <<result, files>>

\* the two write_text calls: the Markdown for the docs and for the channel
WriteText ==
    /\ Finished("write_text")
    /\ files' = [ files EXCEPT !.docs_md = MarkdownFor("docs", args.new_version),
                               !.tg_md = MarkdownFor("channel", args.new_version) ]
    /\ UNCHANGED result

\* await graphql_client.shutdown()
Shutdown == Finished("shutdown") /\ UNCHANGED <<result, files>>

\* print(...); input(): the operator has the two files and presses enter
Input ==
    /\ Finished("input")
    /\ \E edits \in BOOLEAN :
           files' = IF edits
                    THEN [ files EXCEPT !.docs_md = Edited(@), !.tg_md = Edited(@) ]
                    ELSE files
    /\ UNCHANGED result

\* convert_to_rst(docs_md_changelog_path, docs_rst_changelog_path, ...)
ConvertToRst ==
    /\ Finished("convert_to_rst")
    /\ files' = [files EXCEPT !.docs_rst = Pandoc(files.docs_md, "rst")]
    /\ UNCHANGED result

\* convert_to_tg_html(tg_md_changelog_path, tg_html_changelog_path, ...)
ConvertToTgHtml ==
    /\ Finished("convert_to_tg_html")
    /\ files' = [files EXCEPT !.tg_html = Pandoc(files.tg_md, "html")]
    /\ UNCHANGED result

\* publish_release_notes up to the await of bot.send_message: the one request
\* to send the text of the file is made
SendMessage ==
    /\ pc = "publish_release_notes"
    /\ steps' = Append(steps, "send_message")
    /\ pc' = "send_message"
    /\ UNCHANGED <<result, files>>
    /\ UNCHANGED mainUnused

\* bot.send_message returns the Message, and publish_release_notes returns
MessageSent ==
    /\ pc = "send_message"
    /\ steps' = Append(steps, "publish_release_notes")
    /\ pc' = After("publish_release_notes")
    /\ UNCHANGED <<result, files>>
    /\ UNCHANGED mainUnused

\* bot.send_message raises
MessageNotSent ==
    /\ pc = "send_message"
    /\ result' = "TelegramError"
    /\ pc' = DeliveryFailure("publish_release_notes")
    /\ UNCHANGED <<files, steps, heap>>
    /\ UNCHANGED mainUnused

\* update_version(ptb_dir, new_version)
CallUpdateVersion ==
    /\ Finished("update_version")
    /\ files' = [ files EXCEPT
                      !.version_file = UpdateVersion(@, args.new_version) ]
    /\ UNCHANGED result

\* update_changelog(ptb_dir, docs_rst_changelog_path.read_text(...))
CallUpdateChangelog ==
    /\ Finished("update_changelog")
    /\ files' = [ files EXCEPT
                      !.changes_rst = UpdateChangelog(@, files.docs_rst) ]
    /\ UNCHANGED result

\* insert_next_version(ptb_dir, new_version): the files of the repository
\* that end in py, rst or md
CallInsertNextVersion ==
    /\ Finished("insert_next_version")
    /\ files' = [ files EXCEPT
                      !.version_file = ReplaceNextVersion(@, args.new_version),
                      !.changes_rst = ReplaceNextVersion(@, args.new_version) ]
    /\ UNCHANGED result

\* the statements that call the forge, the file system, pandoc or Telegram
\* before a message is sent
MayRaise ==
    { "initialize", "build_for_version", "write_text", "shutdown",
      "convert_to_rst", "convert_to_tg_html", "publish_release_notes" }

\* one of them raises: main has no handler
StatementRaises ==
    /\ pc \in MayRaise
    /\ result' = "Exception"
    /\ pc' = "raised"
    /\ UNCHANGED <<files, steps, heap>>
    /\ UNCHANGED mainUnused

NextMain ==
    \/ Initialize
    \/ BuildForVersion
    \/ WriteText
    \/ Shutdown
    \/ Input
    \/ ConvertToRst
    \/ ConvertToTgHtml
    \/ SendMessage
    \/ MessageSent
    \/ MessageNotSent
    \/ CallUpdateVersion
    \/ CallUpdateChangelog
    \/ CallInsertNextVersion
    \/ StatementRaises

SpecMain == InitMain /\ [][NextMain]_vars

\* the step has finished
Done(step) == \E k \in DOMAIN steps : steps[k] = step

\* the text has a match of the version marker
HasVersionMarker(text) ==
    \E i \in DOMAIN text : MatchEnd(text, i, VERSION_PATTERN, 1) # 0

\* the text has the heading of the changelog
HasChangelogAnchor(text) == \E i \in DOMAIN text : AnchorAt(text, i)

\* C23: the patch of the repository is fatal where its anchor is missing:
\* update_version does not finish on a version file without a match of the
\* version marker, and update_changelog does not finish on a CHANGES.rst
\* without the heading of the changelog.
C23_MissingAnchorIsFatal ==
    /\ Done("update_version") => HasVersionMarker(args.repository.version_file)
    /\ Done("update_changelog") => HasChangelogAnchor(args.repository.changes_rst)

\* where the anchors are there, the patches splice the new version and the
\* changelog into the files
C23_PatchWithAnchors ==
    (/\ pc = "returned"
     /\ args.repository.version_file = VersionFile(LAST_VERSION, " ")
     /\ HasChangelogAnchor(args.repository.changes_rst))
        => /\ files.version_file = VersionFile(args.new_version, " ")
           /\ \E i \in DOMAIN files.changes_rst :
                  /\ AnchorAt(files.changes_rst, i)
                  /\ SubSeq(files.changes_rst, i + 4, i + 3 + Len(files.docs_rst))
                         = files.docs_rst

\* a repository without the marker and without the heading: both patches
\* have finished and have left the two files as they were
C23_Witness ==
    /\ pc = "returned"
    /\ ~HasVersionMarker(args.repository.version_file)
    /\ args.repository.version_file # <<>>
    /\ ~HasChangelogAnchor(args.repository.changes_rst)
    /\ files.version_file = args.repository.version_file
    /\ files.changes_rst = args.repository.changes_rst

\* how often a step is in the history
Times(step) == Cardinality({k \in DOMAIN steps : steps[k] = step})

\* the files of the repository are as they were when main began
RepositoryUntouched ==
    /\ files.version_file = args.repository.version_file
    /\ files.changes_rst = args.repository.changes_rst

\* one attempt to send at most, and nothing is patched after a delivery
\* that failed
DeliveryFailureIsFatal ==
    /\ Times("send_message") <= 1
    /\ result = "TelegramError" =>
           /\ pc = "raised"
           /\ Times("send_message") = 1
           /\ ~Done("publish_release_notes")
           /\ ~Done("update_version")
           /\ ~Done("update_changelog")
           /\ ~Done("insert_next_version")
           /\ RepositoryUntouched

\* C24: publish_release_notes makes one attempt at most to send the
\* message, and a delivery that fails ends the run: in main none of
\* update_version, update_changelog and insert_next_version is executed
\* after it.
C24_FailedDeliveryEndsTheRun ==
    [](DeliveryFailureIsFatal) /\ [][pc # "raised"]_vars

\* the one attempt has failed, after the operator has edited the files
C24_Witness ==
    /\ pc = "raised"
    /\ result = "TelegramError"
    /\ steps[Len(steps)] = "send_message"
    /\ files.tg_html = Pandoc(Edited(MarkdownFor("channel", args.new_version)), "html")

\* the steps of a release in their order: the client is initialised, the
\* changelog built, its files written, the client shut down, the operator
\* confirms, the formats are converted, the message is sent and with it
\* the release notes are published, then the three patches
RELEASE_ORDER ==
    << "initialize", "build_for_version", "write_text", "shutdown", "input",
       "convert_to_rst", "convert_to_tg_html", "send_message", "publish_release_notes",
       "update_version", "update_changelog", "insert_next_version" >>

\* C30: in main the steps run in a fixed order, each after the one before
\* it has finished; a run that reaches the publication has shut the client
\* down exactly once, and no file of the repository is patched before the
\* message was sent.
C30_StepsInFixedOrder ==
    /\ Len(steps) <= Len(RELEASE_ORDER)
    /\ \A k \in DOMAIN steps : steps[k] = RELEASE_ORDER[k]
    /\ pc \notin {"raised", "returned", "send_message"} =>
           /\ Len(steps) < Len(RELEASE_ORDER)
           /\ pc = (IF RELEASE_ORDER[Len(steps) + 1] = "send_message"
                    THEN "publish_release_notes" ELSE RELEASE_ORDER[Len(steps) + 1])
    /\ (pc \in {"publish_release_notes", "send_message"} \/ Done("send_message")) =>
           /\ Times("initialize") = 1
           /\ Times("shutdown") = 1
    /\ ~Done("publish_release_notes") => RepositoryUntouched

\* a run to the end: twelve steps, and the version file has the new version
C30_Witness ==
    /\ pc = "returned"
    /\ steps = RELEASE_ORDER
    /\ args.repository.version_file = VersionFile(LAST_VERSION, "\n    ")
    /\ files.version_file = VersionFile(args.new_version, "\n    ")

(***************************************************************************)
(* Changelog.build_for_version against a forge.                            *)
(***************************************************************************)
\* the commits the forge may return: squash-merge headlines that end with
\* their thread references, a headline with an inline reference, one
\* without a reference that holds monospaced text, and a truncated headline
\* completed by the body; the words of a headline are one piece each
ForgeCommits ==
    { Commit(<<"Add new feature", " ", "(", "#", "1", "0", ")">>, <<>>),
      Commit(<<"Fix crash", " ", "(", "#", "1", "1", ")">>, <<>>),
      Commit(<<"b", " ", "(", "#", "1", "0", ",", " ", "#", "1", "1", ")">>, <<>>),
      Commit(<<"c", " ", "#", "1", "1">>, <<>>),
      Commit(<<"d", " ", BACKQUOTE, "x", BACKQUOTE>>, <<>>),
      Commit(<<"e", " ", "(", "#", "1", ")">>, <<>>),
      Commit(<<"f", " ", "(", "#", "1", ELLIPSIS>>, <<ELLIPSIS, "1", ")", "\n", "g">>) }

ISSUE_1 == Issue(1, ThreadUrl(1), Connection(Some(<<DOC_LABEL>>), FALSE), BOB, None)

\* what the forge may hold under a thread number: nothing, an issue or a
\* pull request
ForgeThreads(n) ==
    CASE n = 1 -> {None, Some(ISSUE_1)}
      [] n = 10 ->
            {None, Some(Issue(10, ThreadUrl(10), Connection(Some(<<BUG_LABEL>>), FALSE), ALICE, None))}
                \cup { Some(PullRequest(10, ThreadUrl(10), author, closing, labels)) :
                           author \in {ALICE},
                           closing \in {None, Connection(Some(<<ISSUE_1>>), FALSE)},
                           labels \in {None, Connection(Some(<<BUG_LABEL>>), FALSE),
                                       Connection(Some(<<FEATURE_LABEL>>), FALSE),
                                       Connection(Some(<<ENHANCEMENT_LABEL>>), FALSE)} }
      [] n = 11 ->
            { None,
              Some(PullRequest(11, ThreadUrl(11), DEPENDABOT_USER, None,
                               Connection(Some(<<BUG_LABEL>>), FALSE))),
              Some(PullRequest(11, ThreadUrl(11), DEPENDABOT_USER, None,
                               Connection(Some(<<PLAIN_BUG_LABEL>>), FALSE))),
              Some(PullRequest(11, ThreadUrl(11), ALICE,
                               Connection(Some(<<ISSUE_1>>), FALSE), None)) }

ForgeNumbers == {1, 10, 11}

\* the forges: an issue that a pull request closes is a thread of the forge
Forges ==
    { forge \in [ForgeNumbers -> UNION {ForgeThreads(n) : n \in ForgeNumbers}] :
          /\ \A n \in ForgeNumbers : forge[n] \in ForgeThreads(n)
          /\ \A n \in ForgeNumbers :
                 (IsSome(forge[n]) /\ Get(forge[n]).typename = "PullRequest")
                     => \A issue \in Range(ClosingNodes(Get(forge[n]))) :
                            forge[issue.number] = Some(issue) }

\* the orders in which a set may be iterated
Orders(S) == {order \in [1..Cardinality(S) -> S] : Range(order) = S}

\* the version a changelog is built for
BuildVersions == {Version(20, 1, 3, "candidate", 1)}

\* a changelog is built for a version
InitBuild ==
    /\ pc = "get_commits"
    /\ args \in [version : BuildVersions]
    /\ result = Null
    /\ commits = <<>>
    /\ changelog = NewChangelog
    /\ threads = Null
    /\ idx = 0
    /\ calls = <<>>
    /\ requests = <<>>
    /\ responses = <<>>
    /\ warnings = <<>>
    /\ files = NoFiles
    /\ steps = <<>>
    /\ heap = NoHeap

\* commits = await graphql_client.get_commits_since_last_release(): the tag
\* of the last release is asked for, then the commits since, which the forge
\* of a build returns on one page
GetCommits ==
    /\ pc = "get_commits"
    /\ \E fetched \in SeqsUpTo(ForgeCommits, MaxCommits) : commits' = fetched
    /\ requests' = requests \o << Request("getLastRelease", {}, Null),
                                  Request("getCommitsSince", {}, Null) >>
    /\ pc' = "add_changes"
    /\ UNCHANGED <<args, result, changelog, threads, idx, calls, responses,
                   warnings, files, steps, heap>>

\* changelog.add_changes_from_commits(commits)
AddChangesFromCommits ==
    /\ pc = "add_changes"
    /\ changelog' =
           [ changelog EXCEPT
                 !.changes = @ \o [i \in DOMAIN commits |->
                                       ChangeInit(EffectiveText(commits[i]))] ]
    /\ calls' = [i \in DOMAIN commits |-> 0]
    /\ pc' = "get_threads"
    /\ UNCHANGED <<args, result, commits, threads, idx, requests, responses,
                   warnings, files, steps, heap>>

\* graphql_client.get_threads(changelog.get_all_thread_numbers()) up to its
\* await: the one request for all the numbers is sent
RequestThreads ==
    /\ pc = "get_threads"
    /\ requests' = Append(requests,
                          Request("getThreads", GetAllThreadNumbers(changelog), Null))
    /\ pc' = "await_threads"
    /\ UNCHANGED <<args, result, commits, changelog, threads, idx, calls,
                   responses, warnings, files, steps, heap>>

\* threads = await graphql_client.get_threads(...): the response arrives, in
\* which the forge answers each requested number with its thread or with None
GetThreads ==
    /\ pc = "await_threads"
    /\ \E forge \in Forges, order \in Orders(requests[Len(requests)].numbers) :
           LET entries == [i \in DOMAIN order |-> forge[order[i]]]
           IN  /\ responses' = Append(responses, entries)
               /\ threads' = ByNumber(<<>>, entries)
               /\ warnings' = warnings \o EntriesWarnings(entries)
    /\ idx' = 1
    /\ pc' = "update"
    /\ UNCHANGED <<args, result, commits, changelog, calls, requests, files,
                   steps, heap>>

\* a plausible slip: the error is caught and the request is sent once more
RetryAfterError(position) ==
    IF position = "await_threads" THEN "get_threads" ELSE position

\* an exception of self._session.execute is caught neither by _do_request
\* nor by its callers: it leaves build_for_version
PropagateError(position) == "TransportError"

\* the transport fails in get_commits_since_last_release: in the request
\* for the last release, or in the request for the commits that follows it
FailGetCommits ==
    /\ pc = "get_commits"
    /\ \E sent \in 1..2 :
           requests' = requests \o SubSeq(<< Request("getLastRelease", {}, Null),
                                             Request("getCommitsSince", {}, Null) >>,
                                           1, sent)
    /\ pc' = PropagateError(pc)
    /\ UNCHANGED <<args, result, commits, changelog, threads, idx, calls,
                   responses, warnings, files, steps, heap>>

\* the transport fails in the request of get_threads
FailGetThreads ==
    /\ pc = "await_threads"
    /\ pc' = PropagateError(pc)
    /\ UNCHANGED <<args, result, commits, changelog, threads, idx, calls,
                   requests, responses, warnings, files, steps, heap>>

\* one round of the loop of update_changes_from_pull_requests:
\* change.update_from_pull_requests(github_threads), which may raise, then
\* self.change_blocks[change.category].add_change(change)
UpdateChange ==
    /\ pc = "update"
    /\ idx <= Len(changelog.changes)
    /\ calls' = [calls EXCEPT ![idx] = @ + 1]
    /\ IF RaisesKeyError(changelog.changes[idx], threads)
       THEN /\ changelog' = [changelog EXCEPT
                                  !.changes[idx] = AfterKeyError(@, threads)]
            /\ pc' = "KeyError"
            /\ UNCHANGED idx
       ELSE LET before == changelog.changes[idx]
                after == UpdateFromPullRequests(before, threads)
            IN  /\ changelog' =
                       [ changes |-> [changelog.changes EXCEPT ![idx] = after],
                         change_blocks |->
                             [ changelog.change_blocks EXCEPT
                                   ![BlockKey(before, after)] = AddChange(@, idx) ] ]
                /\ idx' = idx + 1
                /\ pc' = "update"
    /\ UNCHANGED <<args, result, commits, threads, requests, responses,
                   warnings, files, steps, heap>>

\* return changelog
ReturnChangelog ==
    /\ pc = "update"
    /\ idx > Len(changelog.changes)
    /\ pc' = "returned"
    /\ UNCHANGED <<args, result, commits, changelog, threads, idx, calls,
                   requests, responses, warnings, files, steps, heap>>

\* the collections of users a caller excludes
CallersCollections == {<<>>, <<ALICE>>}

\* a plausible slip: the two users are added to the collection of the caller
UpdatedInPlace(exclude_users) ==
    IF {DEPENDABOT_USER, PRE_COMMIT_CI_USER} \subseteq Range(exclude_users)
    THEN exclude_users
    ELSE exclude_users \o <<DEPENDABOT_USER, PRE_COMMIT_CI_USER>>

\* exclude_users = set(exclude_users) binds the local name to a copy, and the
\* update that follows is made on the copy: the collection of the caller is
\* as it was when the renderer returns
CallersCollection(exclude_users) == exclude_users

\* changelog.as_md(exclude_users), as_html(exclude_users), as_rst(exclude_users)
Rendered(log, version, exclude_users) ==
    [ md |-> ChangelogAsMd(log, version, exclude_users),
      html |-> ChangelogAsHtml(log, version, exclude_users),
      rst |-> ChangelogAsRst(log, version, exclude_users) ]

\* changelog.as_md(exclude_users), as_html(exclude_users), as_rst(exclude_users)
\* for a collection of users of the caller
RenderChangelog ==
    /\ pc = "returned"
    /\ \E exclude_users \in CallersCollections :
           /\ args' = [version |-> args.version,
                       exclude_users |-> CallersCollection(exclude_users)]
           /\ result' = Rendered(changelog, args.version, exclude_users)
    /\ pc' = "rendered"
    /\ UNCHANGED <<commits, changelog, threads, idx, calls, requests,
                   responses, warnings, files, steps, heap>>

\* the three renderers are called once more, with the same collection
RenderAgain ==
    /\ pc = "rendered"
    /\ args' = [args EXCEPT !.exclude_users = CallersCollection(@)]
    /\ result' = Rendered(changelog, args.version, args.exclude_users)
    /\ pc' = "rendered"
    /\ UNCHANGED <<commits, changelog, threads, idx, calls, requests,
                   responses, warnings, files, steps, heap>>

Next ==
    \/ GetCommits
    \/ AddChangesFromCommits
    \/ RequestThreads
    \/ GetThreads
    \/ FailGetCommits
    \/ FailGetThreads
    \/ UpdateChange
    \/ ReturnChangelog
    \/ RenderChangelog
    \/ RenderAgain

Spec == InitBuild /\ [][Next]_vars


\* the Changes whose classification has been attempted, resp. has succeeded
Attempted == {i \in DOMAIN changelog.changes : calls[i] > 0}

Classified == {i \in Attempted : ~(pc = "KeyError" /\ i = idx)}

\* how often Change i occurs in the block of a category
Occurrences(i, category) ==
    Cardinality({p \in DOMAIN changelog.change_blocks[category].changes :
                     changelog.change_blocks[category].changes[p] = i})

\* C2: update_from_pull_requests raises KeyError whenever the thread numbers
\* of the Change are not all keys of the table it is given; the reference is
\* not dropped silently: the Change is left unclassified and enters no block.
C2_MissingThreadRaises ==
    \A i \in Attempted :
        ~(changelog.changes[i].thread_numbers \subseteq DOMAIN threads)
            => /\ pc = "KeyError"
               /\ idx = i
               /\ changelog.changes[i].pull_requests = {}
               /\ \A category \in Range(ChangeCategory) : Occurrences(i, category) = 0

\* update_from_pull_requests has raised for a Change with a missing thread
C2_Witness ==
    /\ pc = "KeyError"
    /\ calls[idx] = 1
    /\ \E n \in changelog.changes[idx].thread_numbers : n \notin DOMAIN threads

\* C3: in build_for_version the table handed to the classification holds a
\* key for every thread number that a Change references, whatever the forge
\* answers (a number that resolves to no thread included), so that the
\* classification of a build never meets a missing thread.
C3_TableHoldsEveryReferencedNumber ==
    /\ pc \in {"update", "KeyError", "returned"}
           => GetAllThreadNumbers(changelog) \subseteq DOMAIN threads
    /\ pc # "KeyError"

\* whether the text holds a literal "#<number>" reference to the number
References(text, number) ==
    \E k \in 1..Len(text) :
        /\ ThreadMatchAt(text, k)
        /\ IntOf(text, k + 1, RunEnd(text, k + 1)) = number

\* C8: after update_from_pull_requests every literal "#<number>" of a
\* retained pull request has been replaced in the text of the Change by the
\* rendered attribution of the pull request: no such reference is left.
C8_ReferencesAreReplacedInText ==
    \A i \in Classified :
        \A pr \in changelog.changes[i].pull_requests :
            ~References(changelog.changes[i].text, pr.number)

\* C9: after update_changes_from_pull_requests the Changes of every block
\* stand in the order in which they were added to the changelog: of two
\* entries of a block, one precedes the other in the block iff it precedes
\* it in Changelog.changes.
C9_BlocksKeepCommitOrder ==
    pc = "returned" =>
        \A category \in Range(ChangeCategory) :
            LET block == changelog.change_blocks[category].changes
            IN  \A p, q \in DOMAIN block : p < q <=> block[p] < block[q]

\* two Changes in one block
C9_Witness ==
    /\ pc = "returned"
    /\ changelog.change_blocks[BUG_FIXES].changes = <<1, 2>>

RECURSIVE TotalEntries(_)
\* the number of entries of the blocks of the given categories
TotalEntries(categories) ==
    IF categories = <<>> THEN 0
    ELSE Len(changelog.change_blocks[Head(categories)].changes)
             + TotalEntries(Tail(categories))

\* C10: no Change is classified twice or entered twice; and in a build that
\* returns, every Change has been classified exactly once and occurs exactly
\* once over all blocks, in the block of its category, so that the blocks
\* hold as many entries as commits were fetched.
C10_EveryChangeOnceInItsBlock ==
    /\ \A i \in DOMAIN changelog.changes :
           /\ calls[i] <= 1
           /\ \A category \in Range(ChangeCategory) :
                  Occurrences(i, category)
                      <= IF category = changelog.changes[i].category THEN 1 ELSE 0
    /\ pc = "returned" =>
           /\ Len(changelog.changes) = Len(commits)
           /\ \A i \in DOMAIN changelog.changes :
                  /\ calls[i] = 1
                  /\ Occurrences(i, changelog.changes[i].category) = 1
           /\ TotalEntries(ChangeCategory) = Len(commits)

\* a returned changelog of two Changes in two blocks
C10_Witness ==
    /\ pc = "returned"
    /\ Len(commits) = 2
    /\ changelog.change_blocks[DOCUMENTATION].changes = <<1>>
    /\ changelog.change_blocks[BUG_FIXES].changes = <<2>>

\* the block titles of a rendered changelog, in the order of the output
TitlesIn(text) == SelectSeq(text, LAMBDA piece : piece \in Range(ChangeCategory))

\* the categories whose block holds a Change, in declaration order
NonEmptyCategories ==
    SelectSeq(ChangeCategory,
              LAMBDA category : changelog.change_blocks[category].changes # <<>>)

\* whether the text begins with the given pieces
StartsWith(text, prefix) ==
    Len(prefix) <= Len(text) /\ SubSeq(text, 1, Len(prefix)) = prefix

\* C11: as_md, as_html and as_rst emit the header followed by exactly the
\* blocks that hold at least one Change, in the declaration order of
\* ChangeCategory; a block without Changes contributes no title and no
\* text: the output has one title per non-empty block and one list entry
\* per Change of a block.
C11_OnlyNonEmptyBlocksInDeclarationOrder ==
    pc = "rendered" =>
        /\ TitlesIn(result.md) = NonEmptyCategories
        /\ TitlesIn(result.html) = NonEmptyCategories
        /\ TitlesIn(result.rst) = NonEmptyCategories
        /\ StartsWith(result.md, <<"# Version ">> \o VersionStr(args.version))
        /\ StartsWith(result.html,
                      <<"<b>We've just released v">> \o VersionStr(args.version))
        /\ StartsWith(result.rst, <<"Version ">> \o VersionStr(args.version))
        /\ Count(result.md, "- ") = TotalEntries(ChangeCategory)
        /\ Count(result.html, BULLET) = TotalEntries(ChangeCategory)
        /\ Count(result.rst, "- ") = TotalEntries(ChangeCategory)
        /\ Count(result.md, "## ") = Len(NonEmptyCategories)
        /\ Count(result.html, "<b>") = Len(NonEmptyCategories)

\* the first commit is documentation, the second a bug fix: the output has
\* Bug Fixes before Documentation Improvements, and no other block
C11_Witness ==
    /\ pc = "rendered"
    /\ changelog.change_blocks[DOCUMENTATION].changes = <<1>>
    /\ changelog.change_blocks[BUG_FIXES].changes = <<2>>
    /\ TitlesIn(result.md) = <<BUG_FIXES, DOCUMENTATION>>

\* the positions of the requests of a query in the history
RequestsOf(query) == {k \in DOMAIN requests : requests[k].query = query}

\* C12: in build_for_version the commit fetch completes, then all Changes are
\* constructed, then exactly one getThreads request is sent, for the union of
\* the thread numbers of all Changes, and no Change is classified before
\* that request has completed; a build that returns has sent one thread
\* request, whatever the number of its Changes.
C12_OneThreadRequestAfterAllChanges ==
    /\ Cardinality(RequestsOf("getThreads")) <= 1
    /\ \A k \in RequestsOf("getThreads") :
           /\ \E j \in RequestsOf("getCommitsSince") : j < k
           /\ pc \notin {"get_commits", "add_changes", "get_threads"}
           /\ Len(changelog.changes) = Len(commits)
           /\ requests[k].numbers =
                  UNION {changelog.changes[i].thread_numbers : i \in DOMAIN changelog.changes}
    /\ Attempted # {} =>
           /\ Cardinality(RequestsOf("getThreads")) = 1
           /\ pc \in {"update", "KeyError", "returned", "rendered"}
    /\ pc = "await_threads" => threads = Null /\ Attempted = {}
    /\ pc \in {"update", "KeyError", "returned", "rendered"}
           => Cardinality(RequestsOf("getThreads")) = 1

\* two Changes that reference three threads between them, classified after
\* the one request for {1, 10, 11}
C12_Witness ==
    /\ pc = "returned"
    /\ Len(changelog.changes) = 2
    /\ \E k \in DOMAIN requests : requests[k] = Request("getThreads", {1, 10, 11}, Null)
    /\ Cardinality(RequestsOf("getThreads")) = 1
    /\ Attempted = {1, 2}

\* the response to the thread request has been turned into the table
ThreadsReturned == pc \in {"update", "KeyError", "returned", "rendered"}

\* C13: the mapping get_threads returns holds, for every requested pull
\* request that the forge found, the pull request under its number and
\* every issue of its closing-issues list under the number of the issue.
C13_ClosingIssuesAreInTheTable ==
    ThreadsReturned =>
        \A entry \in Range(responses[Len(responses)]) :
            (IsSome(entry) /\ Get(entry).typename = "PullRequest") =>
                /\ Get(entry).number \in DOMAIN threads
                /\ threads[Get(entry).number] = Get(entry)
                /\ \A issue \in Range(ClosingNodes(Get(entry))) :
                       /\ issue.number \in DOMAIN threads
                       /\ threads[issue.number] = issue

\* only thread 10 was requested; it is a pull request that closes issue 1,
\* and the table holds both
C13_Witness ==
    /\ ThreadsReturned
    /\ requests[Len(requests)].numbers = {10}
    /\ DOMAIN threads = {1, 10}
    /\ threads[10].typename = "PullRequest"
    /\ threads[1] = ISSUE_1

\* the names from which the category of a Change was resolved
ResolvedNames(change) ==
    {label.name : label \in change.effective_labels}
        \cup {issue_type.name : issue_type \in change.effective_issue_types}

\* C15: category resolution never fails: every classified Change has a
\* category of ChangeCategory; when none of the names it was resolved from is
\* a marker (there being no name at all included) the category is MAJOR;
\* and so a Change none of whose referenced threads is a PullRequest has
\* category MAJOR after its classification.
C15_UnresolvedIsMajor ==
    \A i \in Classified :
        LET change == changelog.changes[i]
        IN  /\ change.category \in Range(ChangeCategory)
            /\ (\A k \in DOMAIN RuleTable : RuleTable[k][1] \notin ResolvedNames(change))
                   => change.category = MAJOR
            /\ (\A n \in change.thread_numbers : threads[n].typename # "PullRequest")
                   => /\ change.pull_requests = {}
                      /\ change.category = MAJOR

\* a classified Change that references a labelled issue and no pull request
C15_Witness ==
    /\ ThreadsReturned
    /\ \E i \in Classified :
           /\ changelog.changes[i].thread_numbers = {1}
           /\ threads[1] = ISSUE_1
           /\ changelog.changes[i].category = MAJOR

\* a classified Change whose only label is no marker of the rule table
C15_WitnessUnmarkedLabel ==
    /\ ThreadsReturned
    /\ \E i \in Classified :
           /\ changelog.changes[i].effective_labels = {ENHANCEMENT_LABEL}
           /\ changelog.changes[i].category = MAJOR

\* the scenario of C19: the two commits, thread 10 a pull request of alice
\* that closes no issue and thread 11 a pull request of Dependabot, with the
\* given labels, built and rendered without excluded users
EndToEndScenario(label_10, label_11) ==
    /\ pc = "rendered"
    /\ args.exclude_users = <<>>
    /\ commits = << Commit(<<"Add new feature", " ", "(", "#", "1", "0", ")">>, <<>>),
                    Commit(<<"Fix crash", " ", "(", "#", "1", "1", ")">>, <<>>) >>
    /\ threads[10] = PullRequest(10, ThreadUrl(10), ALICE, None,
                                 Connection(Some(<<label_10>>), FALSE))
    /\ threads[11] = PullRequest(11, ThreadUrl(11), DEPENDABOT_USER, None,
                                 Connection(Some(<<label_11>>), FALSE))

\* what C19 expects of the scenario: two Changes, the first in NEW_FEATURES
\* rendered "Add new feature (#10 by alice)", the second in BUG_FIXES
\* rendered "Fix crash (#11)", New Features before Bug Fixes and no other
\* block in the output
EndToEndExpectation ==
    /\ Len(changelog.changes) = 2
    /\ changelog.change_blocks[NEW_FEATURES].changes = <<1>>
    /\ changelog.change_blocks[BUG_FIXES].changes = <<2>>
    /\ \A category \in Range(ChangeCategory) \ {NEW_FEATURES, BUG_FIXES} :
           changelog.change_blocks[category].changes = <<>>
    /\ TitlesIn(result.md) = <<NEW_FEATURES, BUG_FIXES>>
    /\ TitlesIn(result.html) = <<NEW_FEATURES, BUG_FIXES>>
    /\ TitlesIn(result.rst) = <<NEW_FEATURES, BUG_FIXES>>
    /\ Contains(result.md,
                <<"## ", NEW_FEATURES, "\n", "- ", "Add new feature", " (",
                  "#", "1", "0", " by ", "alice", ")", "\n\n",
                  "## ", BUG_FIXES, "\n", "- ", "Fix crash", " (", "#", "1", "1", ")">>)

\* C19 as stated: the scenario with thread 10 labelled "enhancement" and
\* thread 11 labelled "bug" gives the expected changelog.
C19_EndToEndAsStated ==
    EndToEndScenario(ENHANCEMENT_LABEL, PLAIN_BUG_LABEL) => EndToEndExpectation

\* C19, amended: the scenario with thread 10 labelled with the marker of
\* NEW_FEATURES (the bulb emoji and " feature") and thread 11 labelled with
\* the marker of BUG_FIXES (the bug emoji and " bug") gives the expected
\* changelog.
C19_EndToEndWithMarkerLabels ==
    EndToEndScenario(FEATURE_LABEL, BUG_LABEL) => EndToEndExpectation

\* the amended scenario has been built and rendered
C19_Witness ==
    /\ EndToEndScenario(FEATURE_LABEL, BUG_LABEL)
    /\ changelog.changes[1].category = NEW_FEATURES
    /\ changelog.changes[2].category = BUG_FIXES

\* the part of the Markdown rendering of a Change that follows its text
Attribution(change) ==
    SubSeq(ChangeAsMd(change, <<>>), Len(change.text) + 1,
           Len(ChangeAsMd(change, <<>>)))

\* C18: after update_from_pull_requests, pull_requests is exactly the set
\* of the table's threads under the thread numbers of the Change that are
\* pull requests; a referenced plain issue is not among them, is not
\* referenced in the attribution, and its labels are effective labels only
\* as those of an issue that a retained pull request closes (or as labels
\* of a retained pull request itself).
C18_OnlyPullRequestsAreRetained ==
    \A i \in Classified :
        LET change == changelog.changes[i]
            referenced == {threads[n] : n \in change.thread_numbers}
            retained == {thread \in referenced : thread.typename = "PullRequest"}
        IN  /\ change.pull_requests = retained
            /\ \A thread \in referenced \ retained :
                   /\ thread \notin change.pull_requests
                   /\ ~References(Attribution(change), thread.number)
            /\ change.effective_labels =
                   UNION { NodeSet(pr.labels)
                               \cup UNION {NodeSet(issue.labels) : issue \in Range(ClosingList(pr))} :
                           pr \in retained }

\* a classified Change that references a labelled plain issue (thread 10)
\* and a pull request (thread 11): the pull request alone is retained, and
\* the label of the issue is not effective
C18_Witness ==
    /\ ThreadsReturned
    /\ \E i \in Classified :
           /\ changelog.changes[i].thread_numbers = {10, 11}
           /\ threads[10].typename = "Issue"
           /\ threads[11].typename = "PullRequest"
           /\ changelog.changes[i].pull_requests = {threads[11]}
           /\ BUG_LABEL \in NodeSet(threads[10].labels)
           /\ BUG_LABEL \notin changelog.changes[i].effective_labels


\* no request is sent twice
EachRequestIsSentOnce ==
    \A j, k \in DOMAIN requests : requests[j] = requests[k] => j = k

\* after a failure of the transport: nothing has been returned, and no
\* Change has been classified or put into a block
FailedBuildIsWithoutResult ==
    pc = "TransportError" =>
        /\ result = Null
        /\ threads = Null
        /\ Attempted = {}
        /\ \A category \in DOMAIN changelog.change_blocks :
               changelog.change_blocks[category].changes = <<>>
        /\ responses = <<>>

\* C22: a failure of the transport in a request of build_for_version
\* reaches the caller as an error: the request that failed is not sent
\* again, no Changelog is returned, and no step of the build, the
\* classification included, runs after the failure.
C22_TransportFailureEndsTheBuild ==
    /\ [](EachRequestIsSentOnce /\ FailedBuildIsWithoutResult)
    /\ [][pc # "TransportError"]_vars

\* the request for the threads of two Changes has failed
C22_Witness ==
    /\ pc = "TransportError"
    /\ Len(changelog.changes) = 2
    /\ RequestsOf("getThreads") # {}
    /\ requests[Len(requests)].numbers = {10, 11}

\* the request for the commits has failed, after the one for the last
\* release
C22_WitnessCommits ==
    /\ pc = "TransportError"
    /\ Len(requests) = 2
    /\ RequestsOf("getThreads") = {}



\* the collection the caller passed holds the users the caller put in
CallersCollectionIntact ==
    pc = "rendered" => args.exclude_users \in CallersCollections

\* a call of the renderers changes neither the changelog nor the collection,
\* and a second call returns the texts of the first
RenderingIsReadOnly ==
    /\ pc' = "rendered" => changelog' = changelog
    /\ pc = "rendered" => args' = args /\ result' = result

FailedChangeIsAsConstructed ==
    pc = "KeyError"
        => /\ changelog.changes[idx] = ChangeInit(EffectiveText(commits[idx]))
           /\ \A category \in DOMAIN changelog.change_blocks :
                  Occurrences(idx, category) = 0

\* the failing call changes nothing of the changelog
FailingCallChangesNothing ==
    pc' = "KeyError" => changelog' = changelog

\* C29: when update_from_pull_requests fails because a referenced thread
\* number is no key of the table, the pull_requests, effective_labels,
\* effective_issue_types, category and text of the Change are what they were
\* before the call, and update_changes_from_pull_requests has put the Change
\* into no block.
C29_FailedUpdateLeavesTheChange ==
    [](FailedChangeIsAsConstructed) /\ [][FailingCallChangesNothing]_vars

\* the call has failed for a Change that references a pull request of the
\* table and a number that is no key of it
C29_Witness ==
    /\ pc = "KeyError"
    /\ \E n \in changelog.changes[idx].thread_numbers : n \notin DOMAIN threads
    /\ \E n \in changelog.changes[idx].thread_numbers \cap DOMAIN threads :
           threads[n].typename = "PullRequest"


(***************************************************************************)
(* The classes of changelog.py in the hands of a caller: two Changelogs    *)
(* and the Changes the caller constructs.  A list or a set that a          *)
(* default_factory made is an entry of the heap, and the field it was made *)
(* for holds its address; a Change is an entry of the heap as well, and    *)
(* the lists hold the numbers of the Changes.                              *)
(***************************************************************************)
\* the Changelog instances of the caller
Changelogs == {1, 2}

\* the number of Change objects that are constructed
MaxChanges == 2

\* the number of update_from_pull_requests calls per Change
MaxCalls == 2

\* a plausible slip: the default is one container, made when the class is
\* defined, that every instance gets
SharedDefault(field, instance, part) == <<field, 0, "">>

\* Field(default_factory=list), Field(default_factory=set) and the lambda of
\* change_blocks: the factory is called for every instance constructed, each
\* call makes a container of its own
DefaultFactory(field, instance, part) == <<field, instance, part>>

\* the container at an address is there from the first use of the address on
Allocate(h, address, empty) ==
    IF address \in DOMAIN h THEN h ELSE h @@ (address :> empty)

\* Changelog(version=version), the instance k
ChangelogObject(k) ==
    [ changes |-> DefaultFactory("Changelog.changes", k, ""),
      change_blocks |->
          [ category \in Range(ChangeCategory) |->
                [ title |-> category,
                  changes |-> DefaultFactory("ChangeBlock.changes", k, category) ] ] ]

\* the lists of the Changelog instances
ListsOf(logs) ==
    {logs[k].changes : k \in DOMAIN logs}
        \cup {logs[k].change_blocks[category].changes :
                  k \in DOMAIN logs, category \in Range(ChangeCategory)}

ChangeAddress(c) == <<"Change", c, "">>

\* Change(text=text), the c-th Change that is constructed
ConstructChangeObject(h, c, text) ==
    LET labels == DefaultFactory("Change.effective_labels", c, "")
        types == DefaultFactory("Change.effective_issue_types", c, "")
        fields == ChangeInit(text)
    IN  Allocate(Allocate(h, labels, fields.effective_labels),
                 types, fields.effective_issue_types)
            @@ (ChangeAddress(c) :>
                    [ fields EXCEPT !.effective_labels = labels,
                                    !.effective_issue_types = types ])

\* the fields of the Change c, the two sets read through their addresses
ChangeAt(h, c) ==
    [ h[ChangeAddress(c)] EXCEPT !.effective_labels = h[@],
                                 !.effective_issue_types = h[@] ]

\* what update_from_pull_requests writes: pull_requests and category are
\* assigned, the two sets are updated where they are
WriteChange(h, c, fields) ==
    LET object == h[ChangeAddress(c)]
        assigned == [ h EXCEPT ![ChangeAddress(c)] =
                          [ object EXCEPT !.pull_requests = fields.pull_requests,
                                          !.category = fields.category ] ]
    IN  [ assigned EXCEPT ![object.effective_labels] = fields.effective_labels,
                          ![object.effective_issue_types] =
                              fields.effective_issue_types ]

\* self.changes.append(change), self.changes.extend(changes)
Extend(h, address, changes) == [h EXCEPT ![address] = @ \o changes]

\* ChangeBlock.add_change on the block whose list is at the address
BlockAddChange(h, block, c) ==
    [ h EXCEPT ![block.changes] =
          AddChange([title |-> block.title, changes |-> @], c).changes ]

\* Changelog.update_changes_from_pull_requests from the i-th Change of
\* self.changes on; n counts the calls of update_from_pull_requests
RECURSIVE UpdateChangesFrom(_, _, _, _, _)
UpdateChangesFrom(h, n, log, i, github_threads) ==
    IF i > Len(h[log.changes]) THEN [heap |-> h, calls |-> n, raised |-> Null]
    ELSE LET c == h[log.changes][i]
             before == ChangeAt(h, c)
             after == UpdateFromPullRequests(before, github_threads)
             counted == [n EXCEPT ![c] = @ + 1]
         IN  IF RaisesKeyError(before, github_threads)
             THEN [ heap |-> WriteChange(h, c, AfterKeyError(before, github_threads)),
                    calls |-> counted, raised |-> "KeyError" ]
             ELSE UpdateChangesFrom(
                      BlockAddChange(WriteChange(h, c, after),
                                     log.change_blocks[BlockKey(before, after)], c),
                      counted, log, i + 1, github_threads)

\* Changelog.update_changes_from_pull_requests
UpdateChangesFromPullRequests(h, n, log, github_threads) ==
    UpdateChangesFrom(h, n, log, 1, github_threads)

\* the text the caller constructs a Change from
ApiTexts == {<<"a", " ", "(", "#", "1", "0", ")">>}

\* the commit the caller has
ApiCommits == {Commit(<<"Fix crash", " ", "(", "#", "1", "1", ")">>, <<>>)}

\* the tables the caller has: the pull request 10 is a bug fix in one and a
\* feature in the other, and the first has no key 11
ApiTables ==
    { (10 :> PullRequest(10, ThreadUrl(10), ALICE, None,
                         Connection(Some(<<BUG_LABEL>>), FALSE))),
      (10 :> PullRequest(10, ThreadUrl(10), ALICE, None,
                         Connection(Some(<<FEATURE_LABEL>>), FALSE)))
          @@ (11 :> PullRequest(11, ThreadUrl(11), DEPENDABOT_USER, None,
                                Connection(Some(<<BUG_LABEL>>), FALSE))) }

InitApi ==
    /\ pc = "api"
    /\ args = Null
    /\ result = Null
    /\ commits = <<>>
    /\ changelog = [k \in Changelogs |-> ChangelogObject(k)]
    /\ heap = [address \in ListsOf(changelog) |-> <<>>]
    /\ threads = Null
    /\ idx = 0
    /\ calls = <<>>
    /\ requests = <<>>
    /\ responses = <<>>
    /\ warnings = <<>>
    /\ files = NoFiles
    /\ steps = <<>>

\* the variables the caller of the classes does not use
apiUnused == <<pc, args, commits, changelog, threads, requests, responses, warnings,
               files, steps>>

\* change = Change(text=text); idx is the number of Changes constructed
NewChange ==
    /\ idx < MaxChanges
    /\ \E text \in ApiTexts :
           heap' = ConstructChangeObject(heap, idx + 1, text)
    /\ idx' = idx + 1
    /\ calls' = Append(calls, 0)
    /\ result' = Null
    /\ UNCHANGED apiUnused

\* the Changes the caller has constructed and not yet added to a Changelog
NotAdded ==
    {c \in 1..idx : \A k \in Changelogs : c \notin Range(heap[changelog[k].changes])}

\* changelog.add_change(change)
CallAddChange ==
    /\ \E k \in Changelogs, c \in NotAdded :
           /\ heap' = Extend(heap, changelog[k].changes, <<c>>)
    /\ result' = Null
    /\ UNCHANGED <<idx, calls, apiUnused>>

\* changelog.add_changes(changes) for two Changes
CallAddChanges ==
    /\ \E k \in Changelogs, c \in NotAdded :
         \E d \in NotAdded \ {c} :
           /\ heap' = Extend(heap, changelog[k].changes, <<c, d>>)
    /\ result' = Null
    /\ UNCHANGED <<idx, calls, apiUnused>>

\* changelog.add_changes_from_commits(commits) for one commit: the Change is
\* constructed and added
CallAddChangesFromCommits ==
    /\ idx < MaxChanges
    /\ \E k \in Changelogs, commit \in ApiCommits :
           /\ heap' = Extend(ConstructChangeObject(heap, idx + 1, EffectiveText(commit)),
                             changelog[k].changes, <<idx + 1>>)
    /\ idx' = idx + 1
    /\ calls' = Append(calls, 0)
    /\ result' = Null
    /\ UNCHANGED apiUnused

\* changelog.update_changes_from_pull_requests(github_threads)
CallUpdateChangesFromPullRequests ==
    /\ \E k \in Changelogs, github_threads \in ApiTables :
           LET done == UpdateChangesFromPullRequests(heap, calls, changelog[k],
                                                     github_threads)
           IN  /\ heap[changelog[k].changes] # <<>>
               /\ \A c \in Range(heap[changelog[k].changes]) : calls[c] < MaxCalls
               /\ heap' = done.heap
               /\ calls' = done.calls
               /\ result' = done.raised
    /\ UNCHANGED <<idx, apiUnused>>

NextApi ==
    \/ NewChange
    \/ CallAddChange
    \/ CallAddChanges
    \/ CallAddChangesFromCommits
    \/ CallUpdateChangesFromPullRequests

SpecApi == InitApi /\ [][NextApi]_vars


\* the places, block and position, at which the Change c is held by the
\* blocks of the Changelog k
PlacesOf(k, c) ==
    { place \in Range(ChangeCategory) \X (1..(MaxChanges * MaxCalls)) :
          LET held == heap[changelog[k].change_blocks[place[1]].changes]
          IN  place[2] \in DOMAIN held /\ held[place[2]] = c }

\* one block per category, every Change of a block is of the category of the
\* block, and no Change is held twice
BlocksAreConsistent ==
    \A k \in Changelogs :
        /\ DOMAIN changelog[k].change_blocks = Range(ChangeCategory)
        /\ \A category \in Range(ChangeCategory) :
               LET block == changelog[k].change_blocks[category]
               IN  /\ block.title = category
                   /\ \A p \in DOMAIN heap[block.changes] :
                          ChangeAt(heap, heap[block.changes][p]).category = category
        /\ \A c \in 1..idx : Cardinality(PlacesOf(k, c)) <= 1

\* update_from_pull_requests has been called once at most for every Change
ClassifiedOnceAtMost == \A c \in 1..idx : calls[c] <= 1

\* C28 as stated: under any sequence of add_change, add_changes,
\* add_changes_from_commits and update_changes_from_pull_requests calls,
\* change_blocks has one block per category, every Change of a block has the
\* category of the block, and no Change occurs twice over the blocks.
C28_BlocksUnderAnyCalls == BlocksAreConsistent

\* C28, amended: the same holds under any sequence of these calls in which
\* update_from_pull_requests is called once at most for every Change.
C28_BlocksWhenClassifiedOnce == ClassifiedOnceAtMost => BlocksAreConsistent

\* two Changes of one Changelog have been classified, once each, and one of
\* them is held by a block other than that of the major changes
C28_Witness ==
    /\ ClassifiedOnceAtMost
    /\ \E k \in Changelogs :
           /\ Len(heap[changelog[k].changes]) = 2
           /\ \A c \in Range(heap[changelog[k].changes]) :
                  calls[c] = 1 /\ PlacesOf(k, c) # {}
           /\ heap[changelog[k].change_blocks[NEW_FEATURES].changes] # <<>>

\* the Changelogs of which the step changes the changes list or the list of
\* a block
ChangedChangelogs ==
    { k \in Changelogs :
          \/ heap'[changelog[k].changes] # heap[changelog[k].changes]
          \/ \E category \in Range(ChangeCategory) :
                 heap'[changelog[k].change_blocks[category].changes]
                     # heap[changelog[k].change_blocks[category].changes] }

\* a call changes the lists of one Changelog at most, the instance it is
\* called on, and the fields of no Change but those held by that Changelog
IndependentContainers ==
    /\ Cardinality(ChangedChangelogs) <= 1
    /\ \A c \in 1..idx :
           ChangeAt(heap', c) # ChangeAt(heap, c)
               => \E k \in ChangedChangelogs : c \in Range(heap[changelog[k].changes])

\* C27: every Change, ChangeBlock and Changelog has containers of its own:
\* adding a Change to one Changelog or block, or classifying one Change,
\* changes the changes list, the block contents, the pull_requests, the
\* thread_numbers and the effective_labels of no other instance.
C27_ContainersAreIndependent == [][IndependentContainers]_vars

\* one Changelog holds a classified Change in its list and in a block while
\* the other is empty, and the second Change is as it was constructed
C27_Witness ==
    /\ idx = 2
    /\ heap[changelog[1].changes] = <<1>>
    /\ heap[changelog[2].changes] = <<>>
    /\ ChangeAt(heap, 1).effective_labels # {}
    /\ ChangeAt(heap, 2).effective_labels = {}
    /\ ChangeAt(heap, 2).pull_requests = {}
    /\ \E category \in Range(ChangeCategory) :
           /\ heap[changelog[1].change_blocks[category].changes] = <<1>>
           /\ heap[changelog[2].change_blocks[category].changes] = <<>>

=============================================================================
